---------------------------- MODULE Spec2Model ----------------------------
(***************************************************************************)
(* State-machine model of the MRO-Supply / Raptor Supplies harvesting      *)
(* engine: the work partitioners, the URLFileScraper checkpoint store, the *)
(* WebshareProxyManager identity pool, RaptorSuppliesScraper, the          *)
(* orchestrator's batch ranges, the result aggregators, the BatchScraper   *)
(* counters and the GitHubScraper retry pass.                              *)
(*                                                                         *)
(* Python lists are TLA+ sequences; a Python position i (0-based) is the   *)
(* sequence index i+1.                                                      *)
(***************************************************************************)
EXTENDS Integers, Sequences, FiniteSets, TLC

(***************************************************************************)
(* Bounds of the model.                                                    *)
(***************************************************************************)
MaxLen == 4
    \* longest URL list given to a partitioner
MaxStart == 1
    \* largest START_INDEX
MaxWorkers == 2
    \* largest TOTAL_WORKERS
MaxLines == 3
    \* longest URL file given to a batch generator
MaxBatchSize == 2
    \* largest --batch-size
MaxBatchId == 2
    \* largest --batch-id
MaxUrlFile == 2
    \* longest --url-file
max_workers == 2
    \* --workers: the pool threads of URLFileScraper
MaxRuns == 2
    \* how many times the URLFileScraper process is started
MaxProxies == 2
    \* most proxies the Webshare API lists
MaxCalls == 5
    \* most get_next_proxy calls made on one WebshareProxyManager alone
end_id == 2
    \* --end: scrape_range goes through the product ids 1..end_id
MaxPerSession == 2
    \* largest requests_per_session
MaxThreshold == 5
    \* largest check_after_errors
MaxRetries == 3
    \* largest max_retries
ShortCooldown == 20
LongCooldown == 300
    \* the two cooldown_period values tried, in seconds
MaxDelay == 2
    \* largest max_delay_seconds
MaxInterval == 2
    \* largest checkpoint_interval
MaxTotalBatches == 8
    \* the largest TOTAL_BATCHES of the orchestrator
MaxFunctions == 4
    \* the most Azure Functions ultra_config.json lists
MaxFiles == 2
    \* the most result files an aggregator finds
MaxRecords == 2
    \* the most records in one result file
MaxBatchLen == 3
    \* the most URLs generate_urls returns to scrape_batch
MaxWorkflows == 3
    \* the workflows run_scrape has triggered: their workflow_num is 1..MaxWorkflows
MaxGithubRuns == 2
    \* how many times github_scraper.py --retry-failed is started

URLs == {"a", "b", "c", "d"}
    \* the identifiers a URL list is drawn from
URLOrder == <<"a", "b", "c", "d">>
FileURLs == {"a", "b"}
    \* the identifiers a --url-file is drawn from
Lines == {"a", "b", ""}
    \* the lines of a URL file: two URLs and the blank line

VARIABLES
    \* ---- RaptorSuppliesWorker / MagentoScraper (one process per worker)
    product_urls,      \* raptorsupplies_urls.json: data['product_urls']
    start_index,       \* START_INDEX
    total_products,    \* TOTAL_PRODUCTS
    total_workers,     \* TOTAL_WORKERS
    started,           \* worker ids whose RaptorSuppliesWorker has been constructed
    my_urls,           \* worker id -> self.my_urls
    loaded,            \* worker ids whose MagentoScraper ran load_collection_urls
    collection_urls,   \* worker id -> self.collection_urls
    \* ---- BatchScraper / generate_batch_urls (one process per batch)
    url_lines,         \* the lines of all_product_urls_*.txt
    batch_size,        \* --batch-size
    total_urls,        \* --total of generate_batch_urls
    scraped_batches,   \* batch ids whose BatchScraper ran generate_urls
    batch_urls,        \* batch id -> the list generate_urls returned
    generated,         \* batch ids for which generate_urls_for_batch ran
    gen_urls,          \* batch id -> the list generate_urls_for_batch returned
    \* ---- URLFileScraper: the files, which outlive the process
    url_file,          \* the URLs of --url-file, in order
    webshare_api_key,  \* whether an API key is given
    checkpoint_file,   \* output_dir/checkpoint_products.json
    failed_file,       \* output_dir/failed_urls.json
    \* ---- URLFileScraper: the process (lost when it is killed)
    main_pc,           \* where the main thread is
    completed_urls,    \* self.completed_urls
    failed_urls,       \* self.failed_urls: url -> error
    lock,              \* self.lock: the set of its holders
    stats,             \* self.stats
    urls,              \* the work list run() got from load_urls_from_file
    submitted,         \* how many of urls executor.submit has queued
    taken,             \* how many queued tasks a pool thread has taken
    finished,          \* how many futures are done
    pc,                \* pool thread -> where it is in scrape_product
    task,              \* pool thread -> position in urls of its url (0: none)
    resp,              \* pool thread -> what its request came back with
    data,              \* pool thread -> save_checkpoint's local data
    dump_keys,         \* pool thread -> the keys json.dump began to iterate
    sf_buffer,         \* pool thread -> what save_failed's file object has buffered
    proxy,             \* pool thread -> its proxy (0: None)
    counter,           \* pool thread -> the counter value record_* read
    \* ---- WebshareProxyManager
    proxy_manager,     \* self.proxy_manager is not None
    proxies,           \* self.proxies, by address
    proxy_index,       \* self.proxy_index
    proxy_lock,        \* self.proxy_lock: the set of its holders
    proxy_stats,       \* self.proxy_stats
    \* ---- history
    runs,              \* how many times the process has been started
    load_error,        \* load_checkpoint of this process took its except branch
    committed,         \* URLs some save_checkpoint, in any run, has written
    run_committed,     \* URLs a save_checkpoint of this process has written
    first_commit,      \* url -> the record present at load or first written
    grant_order,       \* the tasks in the order they took proxy_lock
    granted,           \* task -> <<cursor seen, proxy returned>>
    \* ---- RaptorSuppliesScraper (raptorsupplies_scraper.py)
    requests_per_session, \* config rate_limiting.requests_per_session
    check_after_errors,   \* config rate_limiting.ban_detection.check_after_errors
    cooldown_period,      \* config rate_limiting.ban_detection.cooldown_period
    max_retries,          \* config rate_limiting.ban_detection.max_retries
    now,               \* time.time(), in seconds since the scraper was made
    session,           \* self.session: 0 for None, else the session object
    session_headers,   \* the session _get_headers() was last put on (0: none)
    closed,            \* the session objects close() was called on
    requests_in_session,
    consecutive_errors,
    ban_detected,
    cooldown_until,
    raptor_stats,      \* self.stats: failed_scrapes, bans_detected, products_scraped
    last_product_id,   \* self.checkpoint['last_product_id']
    error_files,       \* product_id -> errors_dir/error_<id>.json (or NoFile)
    rpc,               \* where scrape_range / scrape_product stands
    product_id,        \* the item scrape_range is at (0 before the first)
    attempt,           \* the retry loop's index
    status,            \* the outcome of the last completed attempt of the call
    \* ---- history of the current scrape_product call
    attempts,          \* session.get calls issued by the call
    timeouts,          \* how many of them timed out
    errors_before,     \* consecutive_errors when the last attempt was issued
    wait_time,         \* the back-off slept after the last attempt (0: none)
    result,            \* what the call returned
    blocked_run,       \* 403 outcomes in a row since consecutive_errors was 0
    \* ---- RaptorSuppliesScraper: pacing, checkpoint file, storage
    min_delay_seconds,    \* config rate_limiting.min_delay_seconds
    max_delay_seconds,    \* config rate_limiting.max_delay_seconds
    checkpoint_interval,  \* config scraping.checkpoint_interval
    storage_faults,    \* whether a write to the storage directories can raise
    last_request_time, \* self.last_request_time
    raptor_checkpoint, \* the checkpoint file of RaptorSuppliesScraper
    session_requests,  \* session.get calls made on the current session object
    last_get_time,     \* when the latest session.get was issued (-1: never)
    request_gap,       \* seconds between the latest two session.get (-1: none)
    \* ---- ultra_scrape_orchestrator.py (a script: its module-level names)
    TOTAL_BATCHES,
    functions,         \* config['functions'], as the list 1..len(functions)
    batches_per_function,
    current_batch,
    function_assignments,
    orch_i,            \* how many functions the assignment loop has handled
    \* ---- the aggregators over the workers' result files
    result_files,      \* the JSON files found, in the order they are processed
    consolidated_products,      \* OUTPUT_FILE of consolidate_data.py
    raptor_products_final,      \* raptor_products_final.json of aggregate_results
    auto_consolidated_products, \* consolidated_products.json of AutoFetchService
    \* ---- serverless/batch_scraper.py: BatchScraper.scrape_batch
    batch_len,         \* len(urls), the URLs generate_urls returned
    future,            \* position in urls -> where its scrape_product call is
    seen_count,        \* position in urls -> the success_count its += read
    success_count,     \* self.success_count
    failed_count,      \* self.failed_count
    products,          \* self.products, as positions in urls
    batch_failed_urls, \* self.failed_urls of BatchScraper, as positions in urls
    batch_pc,          \* where the thread that called scrape_batch is
    batch_metadata,    \* batch_<id>_metadata.json
    \* ---- github_scraper.py: GitHubScraper
    ERROR_LOG,         \* scraping_errors.json
    PROGRESS_LOG,      \* scraping_progress.json
    errors,            \* self.errors['failed_workflows'], by workflow_num
    progress,          \* self.progress['completed_workflows']
    failed,            \* the local copy retry_failed_workflows iterates
    retry_i,           \* how many entries of failed the loop has retried
    github_pc,         \* where retry_failed_workflows is
    owed,              \* workflows that failed and no trigger has succeeded for since
    github_runs        \* how many times github_scraper.py has been started

partVars == <<product_urls, start_index, total_products, total_workers,
              started, my_urls, loaded, collection_urls>>
batchVars == <<url_lines, batch_size, total_urls, scraped_batches, batch_urls,
               generated, gen_urls>>
fileVars == <<url_file, webshare_api_key, checkpoint_file, failed_file>>
procVars == <<main_pc, completed_urls, failed_urls, lock, stats, urls, submitted,
              taken, finished, pc, task, resp, data, dump_keys, sf_buffer, proxy, counter>>
proxyVars == <<proxy_manager, proxies, proxy_index, proxy_lock, proxy_stats>>
histVars == <<runs, load_error, committed, run_committed, first_commit,
              grant_order, granted>>
scraperVars == <<fileVars, procVars, proxyVars, histVars>>
raptorConfig == <<requests_per_session, check_after_errors, cooldown_period,
                  max_retries, min_delay_seconds, max_delay_seconds,
                  checkpoint_interval, storage_faults>>
raptorVars == <<raptorConfig, now, session, session_headers, closed,
                requests_in_session, consecutive_errors, ban_detected,
                cooldown_until, raptor_stats, last_product_id, error_files, rpc,
                product_id, attempt, status, attempts, timeouts, errors_before,
                wait_time, result, blocked_run, last_request_time,
                raptor_checkpoint, session_requests, last_get_time,
                request_gap>>
orchVars == <<TOTAL_BATCHES, functions, batches_per_function, current_batch,
              function_assignments, orch_i>>
aggVars == <<result_files, consolidated_products, raptor_products_final,
             auto_consolidated_products>>
counterVars == <<batch_len, future, seen_count, success_count, failed_count,
                 products, batch_failed_urls, batch_pc, batch_metadata>>
githubVars == <<ERROR_LOG, PROGRESS_LOG, errors, progress, failed, retry_i,
                github_pc, owed, github_runs>>
toolVars == <<orchVars, aggVars, counterVars, githubVars>>
vars == <<partVars, batchVars, scraperVars, raptorVars, toolVars>>

Min(a, b) == IF a <= b THEN a ELSE b

SeqsUpTo(S, n) == UNION {[1..k -> S] : k \in 0..n}

\* The URL lists up to a renaming of the identifiers (the partitioners never
\* look inside an identifier): a new identifier is always the first unused
\* one of URLOrder, so <<"a","b","a">> stands for every list x,y,x.
Rank(u) == CHOOSE k \in 1..Len(URLOrder) : URLOrder[k] = u
UrlLists ==
    {s \in SeqsUpTo(URLs, MaxLen) :
        \A i \in 1..Len(s) :
            \A k \in 1..(Rank(s[i]) - 1) : \E j \in 1..(i - 1) : s[j] = URLOrder[k]}

\* Python's lst[a:b] for a, b >= 0: the positions a <= i < min(b, len(lst)).
PySlice(lst, a, b) == SubSeq(lst, a + 1, Min(b, Len(lst)))

(***************************************************************************)
(* Interleaved partition.                                                  *)
(***************************************************************************)
RECURSIVE assign_loop(_, _, _, _, _)
assign_loop(urls_to_process, i, tw, wid, acc) ==
    IF i >= Len(urls_to_process) THEN acc
    ELSE assign_loop(urls_to_process, i + 1, tw, wid,
                     IF i % tw = wid
                     THEN Append(acc, urls_to_process[i + 1])
                     ELSE acc)

\* the 1-based worker id slip: position i goes to worker (i mod tw) + 1
RECURSIVE assign_loop_one_based(_, _, _, _, _)
assign_loop_one_based(urls_to_process, i, tw, wid, acc) ==
    IF i >= Len(urls_to_process) THEN acc
    ELSE assign_loop_one_based(urls_to_process, i + 1, tw, wid,
                     IF (i % tw) + 1 = wid
                     THEN Append(acc, urls_to_process[i + 1])
                     ELSE acc)

assign_batch_one_based(all_urls, start, total, tw, wid) ==
    assign_loop_one_based(PySlice(all_urls, start, start + total), 0, tw, wid, <<>>)

\* the insert-at-front slip: my_urls.insert(0, url) instead of append
RECURSIVE assign_loop_reversed(_, _, _, _, _)
assign_loop_reversed(urls_to_process, i, tw, wid, acc) ==
    IF i >= Len(urls_to_process) THEN acc
    ELSE assign_loop_reversed(urls_to_process, i + 1, tw, wid,
                     IF i % tw = wid
                     THEN <<urls_to_process[i + 1]>> \o acc
                     ELSE acc)

assign_batch_reversed(all_urls, start, total, tw, wid) ==
    assign_loop_reversed(PySlice(all_urls, start, start + total), 0, tw, wid, <<>>)

\* RaptorSuppliesWorker._assign_batch
assign_batch(all_urls, start, total, tw, wid) ==
    assign_loop(PySlice(all_urls, start, start + total), 0, tw, wid, <<>>)

\* MagentoScraper / VariantScraper.load_collection_urls:
\*   all_urls = product_urls[:total_products]
\*   [url for i, url in enumerate(all_urls) if i % total_workers == worker_id]
load_collection_urls(json_urls, total, tw, wid) ==
    LET all_urls == PySlice(json_urls, 0, total)
        keep == {i \in 0..(Len(all_urls) - 1) : i % tw = wid}
        \* the k-th kept position, in increasing order
        kth[k \in 1..Cardinality(keep)] ==
            CHOOSE i \in keep : Cardinality({j \in keep : j < i}) = k - 1
    IN  [k \in 1..Cardinality(keep) |-> all_urls[kth[k] + 1]]

InitPart ==
    /\ product_urls \in UrlLists
    /\ start_index \in 0..MaxStart
    /\ total_products \in 0..(MaxLen + 1)
    /\ total_workers \in 1..MaxWorkers
    /\ started = {}
    /\ my_urls = [w \in 0..(total_workers - 1) |-> <<>>]
    /\ loaded = {}
    /\ collection_urls = [w \in 0..(total_workers - 1) |-> <<>>]

\* RaptorSuppliesWorker.__init__ of worker w: my_urls = self._assign_batch()
AssignBatch(w) ==
    /\ w \notin started
    /\ started' = started \cup {w}
    /\ my_urls' = [my_urls EXCEPT ![w] =
                      assign_batch(product_urls, start_index, total_products,
                                   total_workers, w)]
    /\ UNCHANGED <<product_urls, start_index, total_products, total_workers,
                   loaded, collection_urls, batchVars, scraperVars, raptorVars, toolVars>>

\* MagentoScraper.load_collection_urls of worker w
LoadCollectionUrls(w) ==
    /\ w \notin loaded
    /\ loaded' = loaded \cup {w}
    /\ collection_urls' = [collection_urls EXCEPT ![w] =
                      load_collection_urls(product_urls, total_products,
                                           total_workers, w)]
    /\ UNCHANGED <<product_urls, start_index, total_products, total_workers,
                   started, my_urls, batchVars, scraperVars, raptorVars, toolVars>>

(***************************************************************************)
(* Contiguous-range partition.                                             *)
(***************************************************************************)
\* all_urls = [line.strip() for line in f if line.strip()]
RECURSIVE read_url_lines(_)
read_url_lines(lines) ==
    IF lines = <<>> THEN <<>>
    ELSE IF Head(lines) # "" THEN <<Head(lines)>> \o read_url_lines(Tail(lines))
         ELSE read_url_lines(Tail(lines))

\* the overlapping-window slip: end_idx = start_idx + batch_size + 1
generate_urls_overlap(lines, bid, bsize) ==
    LET start_idx == bid * bsize
        end_idx == start_idx + bsize + 1
    IN  PySlice(read_url_lines(lines), start_idx, end_idx)

\* BatchScraper.generate_urls
generate_urls(lines, bid, bsize) ==
    LET start_idx == bid * bsize
        end_idx == start_idx + bsize
    IN  PySlice(read_url_lines(lines), start_idx, end_idx)

\* generate_urls_for_batch (the URL file present)
generate_urls_for_batch(lines, bid, bsize, total) ==
    LET start_idx == bid * bsize
        end_idx == Min(start_idx + bsize, total)
    IN  PySlice(read_url_lines(lines), start_idx, end_idx)

InitBatch ==
    /\ url_lines \in SeqsUpTo(Lines, MaxLines)
    /\ batch_size \in 1..MaxBatchSize
    /\ total_urls \in 0..(MaxLines + 1)
    /\ scraped_batches = {}
    /\ batch_urls = [b \in 0..MaxBatchId |-> <<>>]
    /\ generated = {}
    /\ gen_urls = [b \in 0..MaxBatchId |-> <<>>]

\* BatchScraper.scrape_batch of batch b: urls = self.generate_urls()
GenerateUrls(b) ==
    /\ b \notin scraped_batches
    /\ scraped_batches' = scraped_batches \cup {b}
    /\ batch_urls' = [batch_urls EXCEPT ![b] = generate_urls(url_lines, b, batch_size)]
    /\ UNCHANGED <<url_lines, batch_size, total_urls, generated, gen_urls, partVars,
                   scraperVars, raptorVars, toolVars>>

\* generate_batch_urls.main of batch b
GenerateUrlsForBatch(b) ==
    /\ b \notin generated
    /\ generated' = generated \cup {b}
    /\ gen_urls' = [gen_urls EXCEPT ![b] =
                       generate_urls_for_batch(url_lines, b, batch_size, total_urls)]
    /\ UNCHANGED <<url_lines, batch_size, total_urls, scraped_batches, batch_urls,
                   partVars, scraperVars, raptorVars, toolVars>>

(***************************************************************************)
(* URLFileScraper and WebshareProxyManager.                                *)
(*                                                                         *)
(* A file is [kind, data]: kind "absent" (no such file), "json" (a         *)
(* complete dump of data) or "partial" (opened for writing and truncated,  *)
(* the dump not completed: json.load raises on it).  A dict is a function   *)
(* from its keys.  A pool thread's position pc follows scrape_product.      *)
(***************************************************************************)
\* a pool that starts one thread more than max_workers
Threads_one_more == 1..(max_workers + 1)

\* ThreadPoolExecutor(max_workers=self.max_workers): the pool's threads
Threads == 1..max_workers
MainThread == 0

\* what a request comes back with: 200, 429, 404, or an exception (from
\* raise_for_status on another status, a timeout, a connection error), all
\* of which the one except branch of scrape_product handles
Outcomes == {"ok", "rate_limited", "not_found", "error"}

EmptyDict == [u \in {} |-> 0]
AbsentFile == [kind |-> "absent", data |-> EmptyDict]
PartialFile == [kind |-> "partial", data |-> EmptyDict]
JsonFile(d) == [kind |-> "json", data |-> d]

\* a text file's buffer, complete (a whole dump of data) or not
NoBuffer == [complete |-> FALSE, data |-> EmptyDict]

\* what closing a file opened with 'w' leaves on disk: the buffer is written
\* from the start of the file over what is there.  A dump that raised is
\* taken to have buffered nothing.  A whole dump replaces an empty file and
\* a dump of fewer (or the same) keys; written over a longer dump, which
\* another handle has flushed since the open, it leaves the longer dump's
\* tail behind it: the file no longer parses (kind "partial", with the keys
\* of the longer dump to tell how far the bytes go).
flush_over(buf, file) ==
    IF ~buf.complete THEN file
    ELSE IF DOMAIN file.data \subseteq DOMAIN buf.data
         THEN JsonFile(buf.data)
         ELSE [kind |-> "partial", data |-> file.data]

\* d[k] = v on a dict
DictSet(d, k, v) == [x \in DOMAIN d \cup {k} |-> IF x = k THEN v ELSE d[x]]

\* the URL lists of --url-file, up to a renaming of the identifiers
UrlFiles == {s \in UrlLists : Len(s) <= MaxUrlFile /\ \A i \in 1..Len(s) : s[i] \in FileURLs}

\* the URL lists of one URL more than the pool has threads
BacklogUrlFiles ==
    {s \in UrlLists :
        /\ Len(s) = max_workers + 1
        /\ \A i \in 1..Len(s) : s[i] \in FileURLs}

\* extract_product_data: the record of url as fetched by the k-th task of
\* this process (scraped_at tells two fetches of one url apart)
extract_product_data(url, k) == [url |-> url, scraped_at |-> <<runs, k>>]

\* URLFileScraper.load_checkpoint: the keys of a checkpoint that parses, the
\* empty set when the file is absent or json.load raises
load_checkpoint(file) ==
    IF file.kind = "json" THEN DOMAIN file.data ELSE {}

\* URLFileScraper.load_failed
load_failed(file) ==
    IF file.kind = "json" THEN file.data ELSE EmptyDict

\* URLFileScraper.load_urls_from_file
load_urls_from_file(lines, completed) ==
    SelectSeq(lines, LAMBDA url : url # "" /\ url \notin completed)

\* a Lock that excludes nobody
CanAcquire_unguarded(l) == TRUE

\* threading.Lock: acquire returns only when nobody holds the lock
CanAcquire(l) == l = {}

\* the message save_failed is given for a response
ErrorOf(o) == IF o = "not_found" THEN "HTTP 404 - Product not found" ELSE o

\* the stats counter (and the proxy counter) an outcome is counted in
CounterOf(o) ==
    CASE o = "ok" -> "success"
      [] o = "rate_limited" -> "rate_limited"
      [] OTHER -> "failed"

\* a recording that counts a success as a failure and a failure as a success
ProxyCounterOf_swapped(o) == IF o = "ok" THEN "failed" ELSE "success"

\* record_success after a 200, record_failure after anything else
ProxyCounterOf(o) == IF o = "ok" THEN "success" ELSE "failed"

\* a fetch that reports success whatever it got
fetch_proxies_reports_success(n) == TRUE

\* WebshareProxyManager.fetch_proxies with n usable proxies in the answer
\* (n = 0 as well when requests.get raises or raise_for_status does):
\* return len(self.proxies) > 0, return False in the except branch
fetch_proxies(n) == n > 0

FreshStats == [total |-> 0, success |-> 0, failed |-> 0, rate_limited |-> 0]

\* nothing on disk and a process that has not begun
FreshScraper ==
    /\ checkpoint_file = AbsentFile
    /\ failed_file = AbsentFile
    /\ main_pc = "start"
    /\ completed_urls = {}
    /\ failed_urls = EmptyDict
    /\ lock = {}
    /\ stats = FreshStats
    /\ urls = <<>>
    /\ submitted = 0
    /\ taken = 0
    /\ finished = 0
    /\ pc = [t \in Threads |-> "idle"]
    /\ task = [t \in Threads |-> 0]
    /\ resp = [t \in Threads |-> "none"]
    /\ data = [t \in Threads |-> EmptyDict]
    /\ dump_keys = [t \in Threads |-> {}]
    /\ sf_buffer = [t \in Threads |-> NoBuffer]
    /\ proxy = [t \in Threads |-> 0]
    /\ counter = [t \in Threads |-> 0]
    /\ proxy_manager = FALSE
    /\ proxies = <<>>
    /\ proxy_index = 0
    /\ proxy_lock = {}
    /\ proxy_stats = <<>>
    /\ runs = 1
    /\ load_error = FALSE
    /\ committed = {}
    /\ run_committed = {}
    /\ first_commit = EmptyDict
    /\ grant_order = <<>>
    /\ granted = EmptyDict

InitScraper ==
    /\ url_file \in UrlFiles
    /\ webshare_api_key \in BOOLEAN
    /\ FreshScraper

\* The process is killed (SIGKILL, power loss) and started again: what it
\* held in memory is gone, the files are as the kill left them.
Kill ==
    /\ runs < MaxRuns
    /\ main_pc # "start"
    /\ runs' = runs + 1
    /\ main_pc' = "start"
    /\ completed_urls' = {}
    /\ failed_urls' = EmptyDict
    /\ lock' = {}
    /\ stats' = FreshStats
    /\ urls' = <<>>
    /\ submitted' = 0
    /\ taken' = 0
    /\ finished' = 0
    /\ pc' = [t \in Threads |-> "idle"]
    /\ task' = [t \in Threads |-> 0]
    /\ resp' = [t \in Threads |-> "none"]
    /\ data' = [t \in Threads |-> EmptyDict]
    /\ dump_keys' = [t \in Threads |-> {}]
    /\ sf_buffer' = [t \in Threads |-> NoBuffer]
    /\ proxy' = [t \in Threads |-> 0]
    /\ counter' = [t \in Threads |-> 0]
    /\ proxy_manager' = FALSE
    /\ proxies' = <<>>
    /\ proxy_index' = 0
    /\ proxy_lock' = {}
    /\ proxy_stats' = <<>>
    /\ load_error' = FALSE
    /\ run_committed' = {}
    /\ first_commit' = EmptyDict
    /\ grant_order' = <<>>
    /\ granted' = EmptyDict
    /\ UNCHANGED <<fileVars, committed, partVars, batchVars, raptorVars, toolVars>>

\* URLFileScraper.__init__: fetch_proxies (n usable proxies; 0 when the call
\* raises, answers an error status or lists none, and the manager is
\* dropped), then load_checkpoint and load_failed
Construct ==
    /\ main_pc = "start"
    /\ \E n \in (IF webshare_api_key THEN 0..MaxProxies ELSE {0}) :
          /\ proxy_manager' = fetch_proxies(n)
          /\ proxies' = [i \in 1..n |-> i]
          /\ proxy_stats' = [a \in 1..n |-> [success |-> 0, failed |-> 0]]
    /\ completed_urls' = load_checkpoint(checkpoint_file)
    /\ load_error' = (checkpoint_file.kind = "partial")
    /\ failed_urls' = load_failed(failed_file)
    /\ first_commit' = IF checkpoint_file.kind = "json"
                       THEN checkpoint_file.data ELSE EmptyDict
    /\ main_pc' = "constructed"
    /\ UNCHANGED <<fileVars, lock, stats, urls, submitted, taken, finished, pc,
                   task, resp, data, dump_keys, sf_buffer, proxy, counter, proxy_index,
                   proxy_lock, runs, committed, run_committed, grant_order,
                   granted, partVars, batchVars, raptorVars, toolVars>>

\* URLFileScraper.run: urls = self.load_urls_from_file(); return if empty
LoadUrls ==
    /\ main_pc = "constructed"
    /\ urls' = load_urls_from_file(url_file, completed_urls)
    /\ main_pc' = IF urls' = <<>> THEN "done" ELSE "submit"
    /\ UNCHANGED <<fileVars, completed_urls, failed_urls, lock, stats, submitted,
                   taken, finished, pc, task, resp, data, dump_keys, sf_buffer, proxy,
                   counter, proxyVars, histVars, partVars, batchVars,
                   raptorVars, toolVars>>

\* scrape_concurrent: executor.submit(self.scrape_product, url) for every url.
\* The submissions touch nothing but the executor's queue, so a pool thread
\* cannot tell whether the later ones were made before or after its own
\* steps: they are taken together.
Submit ==
    /\ main_pc = "submit"
    /\ submitted' = Len(urls)
    /\ main_pc' = "collect"
    /\ UNCHANGED <<fileVars, completed_urls, failed_urls, lock, stats, urls,
                   taken, finished, pc, task, resp, data, dump_keys, sf_buffer, proxy,
                   counter, proxyVars, histVars, partVars, batchVars,
                   raptorVars, toolVars>>

\* a pool thread takes the next queued task and enters scrape_product (idle
\* threads are interchangeable: the one of lowest number takes it)
TakeTask(t) ==
    /\ pc[t] = "idle"
    /\ \A t2 \in Threads : t2 < t => pc[t2] # "idle"
    /\ taken < submitted
    /\ taken' = taken + 1
    /\ task' = [task EXCEPT ![t] = taken + 1]
    /\ pc' = [pc EXCEPT ![t] = IF proxy_manager THEN "gnp_lock" ELSE "get"]
    /\ UNCHANGED <<fileVars, main_pc, completed_urls, failed_urls, lock, stats,
                   urls, submitted, finished, resp, data, dump_keys, sf_buffer, proxy,
                   counter, proxyVars, histVars, partVars, batchVars,
                   raptorVars, toolVars>>

\* get_next_proxy: with self.proxy_lock
GetNextProxyAcquire(t) ==
    /\ pc[t] = "gnp_lock"
    /\ CanAcquire(proxy_lock)
    /\ proxy_lock' = proxy_lock \cup {t}
    /\ grant_order' = Append(grant_order, task[t])
    /\ pc' = [pc EXCEPT ![t] = "gnp_select"]
    /\ UNCHANGED <<fileVars, main_pc, completed_urls, failed_urls, lock, stats,
                   urls, submitted, taken, finished, task, resp, data, dump_keys, sf_buffer,
                   proxy, counter, proxy_manager, proxies, proxy_index,
                   proxy_stats, runs, load_error, committed, run_committed,
                   first_commit, granted, partVars, batchVars, raptorVars, toolVars>>

\* get_next_proxy: proxy = self.proxies[self.proxy_index % len(self.proxies)]
GetNextProxySelect(t) ==
    /\ pc[t] = "gnp_select"
    /\ proxy' = [proxy EXCEPT ![t] = proxies[(proxy_index % Len(proxies)) + 1]]
    /\ granted' = DictSet(granted, task[t], <<proxy_index, proxy'[t]>>)
    /\ pc' = [pc EXCEPT ![t] = "gnp_advance"]
    /\ UNCHANGED <<fileVars, main_pc, completed_urls, failed_urls, lock, stats,
                   urls, submitted, taken, finished, task, resp, data, dump_keys, sf_buffer,
                   counter, proxyVars, runs, load_error, committed, run_committed,
                   first_commit, grant_order, partVars, batchVars, raptorVars, toolVars>>

\* a get_next_proxy that returns without releasing proxy_lock
GetNextProxyAdvance_keeps_lock(t) ==
    /\ pc[t] = "gnp_advance"
    /\ proxy_index' = proxy_index + 1
    /\ pc' = [pc EXCEPT ![t] = "get"]
    /\ UNCHANGED <<fileVars, main_pc, completed_urls, failed_urls, lock, stats,
                   urls, submitted, taken, finished, task, resp, data, dump_keys, sf_buffer,
                   proxy, counter, proxy_manager, proxies, proxy_lock,
                   proxy_stats, histVars, partVars, batchVars, raptorVars, toolVars>>

\* get_next_proxy: self.proxy_index += 1; return proxy (the lock is released)
GetNextProxyAdvance(t) ==
    /\ pc[t] = "gnp_advance"
    /\ proxy_index' = proxy_index + 1
    /\ proxy_lock' = proxy_lock \ {t}
    /\ pc' = [pc EXCEPT ![t] = "get"]
    /\ UNCHANGED <<fileVars, main_pc, completed_urls, failed_urls, lock, stats,
                   urls, submitted, taken, finished, task, resp, data, dump_keys, sf_buffer,
                   proxy, counter, proxy_manager, proxies, proxy_stats, histVars,
                   partVars, batchVars, raptorVars, toolVars>>

\* scrape_product: self.session.get(url, proxies=proxy, timeout=30) is issued
SendRequest(t) ==
    /\ pc[t] = "get"
    /\ pc' = [pc EXCEPT ![t] = "wait"]
    /\ UNCHANGED <<fileVars, main_pc, completed_urls, failed_urls, lock, stats,
                   urls, submitted, taken, finished, task, resp, data, dump_keys, sf_buffer,
                   proxy, counter, proxyVars, histVars, partVars, batchVars,
                   raptorVars, toolVars>>

\* where scrape_product goes with a response: 429 and the exceptions count
\* first, 404 goes to save_failed, 200 records the proxy's success first
AfterResponse(o) ==
    CASE o = "not_found" -> "sf_insert"
      [] o = "ok" /\ proxy_manager -> "rec_read"
      [] OTHER -> "count_lock"

\* the request returns, or raises (raise_for_status, a timeout)
ReceiveResponse(t) ==
    /\ pc[t] = "wait"
    /\ \E o \in Outcomes :
          /\ resp' = [resp EXCEPT ![t] = o]
          /\ pc' = [pc EXCEPT ![t] = AfterResponse(o)]
    /\ UNCHANGED <<fileVars, main_pc, completed_urls, failed_urls, lock, stats,
                   urls, submitted, taken, finished, task, data, dump_keys, sf_buffer,
                   proxy, counter, proxyVars, histVars, partVars, batchVars,
                   raptorVars, toolVars>>

\* scrape_product: with self.lock (around one of the three counters)
CountAcquire(t) ==
    /\ pc[t] = "count_lock"
    /\ CanAcquire(lock)
    /\ lock' = lock \cup {t}
    /\ pc' = [pc EXCEPT ![t] = "count"]
    /\ UNCHANGED <<fileVars, main_pc, completed_urls, failed_urls, stats, urls,
                   submitted, taken, finished, task, resp, data, dump_keys, sf_buffer,
                   proxy, counter, proxyVars, histVars, partVars, batchVars,
                   raptorVars, toolVars>>

\* where scrape_product goes after counting
AfterCount(t) ==
    CASE resp[t] = "ok" -> "sc_lock"
      [] resp[t] = "rate_limited" -> IF proxy_manager THEN "rec_read" ELSE "ret"
      [] OTHER -> IF proxy_manager /\ proxy[t] # 0 THEN "rec_read" ELSE "sf_insert"

\* scrape_product: self.stats[...] += 1 and the lock is released
Count(t) ==
    /\ pc[t] = "count"
    /\ stats' = [stats EXCEPT ![CounterOf(resp[t])] = @ + 1]
    /\ lock' = lock \ {t}
    /\ pc' = [pc EXCEPT ![t] = AfterCount(t)]
    /\ UNCHANGED <<fileVars, main_pc, completed_urls, failed_urls, urls,
                   submitted, taken, finished, task, resp, data, dump_keys, sf_buffer,
                   proxy, counter, proxyVars, histVars, partVars, batchVars,
                   raptorVars, toolVars>>

\* record_success / record_failure: the read of proxy_stats[address][...]
RecordRead(t) ==
    /\ pc[t] = "rec_read"
    /\ counter' = [counter EXCEPT ![t] =
                      proxy_stats[proxy[t]][ProxyCounterOf(resp[t])]]
    /\ pc' = [pc EXCEPT ![t] = "rec_write"]
    /\ UNCHANGED <<fileVars, main_pc, completed_urls, failed_urls, lock, stats,
                   urls, submitted, taken, finished, task, resp, data, dump_keys, sf_buffer,
                   proxy, proxyVars, histVars, partVars, batchVars, raptorVars, toolVars>>

\* where scrape_product goes after record_success / record_failure
AfterRecord(t) ==
    CASE resp[t] = "ok" -> "count_lock"
      [] resp[t] = "rate_limited" -> "ret"
      [] OTHER -> "sf_insert"

\* record_success / record_failure: the write of the value read plus one
RecordWrite(t) ==
    /\ pc[t] = "rec_write"
    /\ proxy_stats' = [proxy_stats EXCEPT
                          ![proxy[t]][ProxyCounterOf(resp[t])] = counter[t] + 1]
    /\ pc' = [pc EXCEPT ![t] = AfterRecord(t)]
    /\ UNCHANGED <<fileVars, main_pc, completed_urls, failed_urls, lock, stats,
                   urls, submitted, taken, finished, task, resp, data, dump_keys, sf_buffer,
                   proxy, counter, proxy_manager, proxies, proxy_index,
                   proxy_lock, histVars, partVars, batchVars, raptorVars, toolVars>>

\* save_checkpoint: with self.lock
SaveCheckpointAcquire(t) ==
    /\ pc[t] = "sc_lock"
    /\ CanAcquire(lock)
    /\ lock' = lock \cup {t}
    /\ pc' = [pc EXCEPT ![t] = "sc_read"]
    /\ UNCHANGED <<fileVars, main_pc, completed_urls, failed_urls, stats, urls,
                   submitted, taken, finished, task, resp, data, dump_keys, sf_buffer,
                   proxy, counter, proxyVars, histVars, partVars, batchVars,
                   raptorVars, toolVars>>

\* save_checkpoint: data = json.load(f) if the file exists, else {}; then
\* data[product['url']] = product.  When json.load raises, the with block
\* releases the lock, the except branch logs and save_checkpoint returns.
SaveCheckpointRead(t) ==
    /\ pc[t] = "sc_read"
    /\ IF checkpoint_file.kind = "partial"
       THEN /\ lock' = lock \ {t}
            /\ pc' = [pc EXCEPT ![t] = "ret"]
            /\ data' = data
       ELSE /\ data' = [data EXCEPT ![t] =
                           DictSet(checkpoint_file.data, urls[task[t]],
                                   extract_product_data(urls[task[t]], task[t]))]
            /\ pc' = [pc EXCEPT ![t] = "sc_open"]
            /\ lock' = lock
    /\ UNCHANGED <<fileVars, main_pc, completed_urls, failed_urls, stats, urls,
                   submitted, taken, finished, task, resp, dump_keys, sf_buffer, proxy,
                   counter, proxyVars, histVars, partVars, batchVars,
                   raptorVars, toolVars>>

\* save_checkpoint: open(self.checkpoint_file, 'w') truncates the file
SaveCheckpointOpen(t) ==
    /\ pc[t] = "sc_open"
    /\ checkpoint_file' = PartialFile
    /\ pc' = [pc EXCEPT ![t] = "sc_dump"]
    /\ UNCHANGED <<url_file, webshare_api_key, failed_file, main_pc,
                   completed_urls, failed_urls, lock, stats, urls, submitted,
                   taken, finished, task, resp, data, dump_keys, sf_buffer, proxy, counter,
                   proxyVars, histVars, partVars, batchVars, raptorVars, toolVars>>

\* save_checkpoint: json.dump(data, f), the file is closed, the lock is
\* released and save_checkpoint returns
SaveCheckpointDump(t) ==
    /\ pc[t] = "sc_dump"
    /\ checkpoint_file' = JsonFile(data[t])
    /\ lock' = lock \ {t}
    /\ pc' = [pc EXCEPT ![t] = "ret"]
    /\ committed' = committed \cup {urls[task[t]]}
    /\ run_committed' = run_committed \cup {urls[task[t]]}
    /\ first_commit' = IF urls[task[t]] \in DOMAIN first_commit THEN first_commit
                       ELSE DictSet(first_commit, urls[task[t]],
                                    data[t][urls[task[t]]])
    /\ UNCHANGED <<url_file, webshare_api_key, failed_file, main_pc,
                   completed_urls, failed_urls, stats, urls, submitted, taken,
                   finished, task, resp, data, dump_keys, sf_buffer, proxy, counter,
                   proxyVars, runs, load_error, grant_order, granted, partVars,
                   batchVars, raptorVars, toolVars>>

\* save_failed: self.failed_urls[url] = {'error': error, ...}
SaveFailedInsert(t) ==
    /\ pc[t] = "sf_insert"
    /\ failed_urls' = DictSet(failed_urls, urls[task[t]], ErrorOf(resp[t]))
    /\ pc' = [pc EXCEPT ![t] = "sf_open"]
    /\ UNCHANGED <<fileVars, main_pc, completed_urls, lock, stats, urls,
                   submitted, taken, finished, task, resp, data, dump_keys, sf_buffer,
                   proxy, counter, proxyVars, histVars, partVars, batchVars,
                   raptorVars, toolVars>>

\* save_failed: open(self.failed_file, 'w') truncates the file and json.dump
\* begins to iterate self.failed_urls
SaveFailedOpen(t) ==
    /\ pc[t] = "sf_open"
    /\ failed_file' = PartialFile
    /\ dump_keys' = [dump_keys EXCEPT ![t] = DOMAIN failed_urls]
    /\ pc' = [pc EXCEPT ![t] = "sf_dump"]
    /\ UNCHANGED <<url_file, webshare_api_key, checkpoint_file, main_pc,
                   completed_urls, failed_urls, lock, stats, urls, submitted,
                   taken, finished, task, resp, data, sf_buffer, proxy, counter,
                   proxyVars, histVars, partVars, batchVars, raptorVars, toolVars>>

\* save_failed: json.dump ends.  It has written the dict into the file
\* object's buffer, unless another thread added a key meanwhile and the
\* iteration raised (dictionary changed size during iteration).
SaveFailedDump(t) ==
    /\ pc[t] = "sf_dump"
    /\ sf_buffer' = [sf_buffer EXCEPT ![t] =
                        IF DOMAIN failed_urls = dump_keys[t]
                        THEN [complete |-> TRUE, data |-> failed_urls]
                        ELSE NoBuffer]
    /\ pc' = [pc EXCEPT ![t] = "sf_close"]
    /\ UNCHANGED <<fileVars, main_pc, completed_urls, failed_urls, lock, stats,
                   urls, submitted, taken, finished, task, resp, data,
                   dump_keys, proxy, counter, proxyVars, histVars, partVars,
                   batchVars, raptorVars, toolVars>>

\* save_failed: the with block closes the file, which flushes the buffer;
\* after a dump that raised, the except branch logs it; save_failed returns
SaveFailedClose(t) ==
    /\ pc[t] = "sf_close"
    /\ failed_file' = flush_over(sf_buffer[t], failed_file)
    /\ pc' = [pc EXCEPT ![t] = "ret"]
    /\ UNCHANGED <<url_file, webshare_api_key, checkpoint_file, main_pc,
                   completed_urls, failed_urls, lock, stats, urls, submitted,
                   taken, finished, task, resp, data, dump_keys, sf_buffer, proxy, counter,
                   proxyVars, histVars, partVars, batchVars, raptorVars, toolVars>>

\* scrape_product returns: the future is done, the thread is free again
FinishTask(t) ==
    /\ pc[t] = "ret"
    /\ finished' = finished + 1
    /\ pc' = [pc EXCEPT ![t] = "idle"]
    /\ task' = [task EXCEPT ![t] = 0]
    /\ resp' = [resp EXCEPT ![t] = "none"]
    /\ data' = [data EXCEPT ![t] = EmptyDict]
    /\ dump_keys' = [dump_keys EXCEPT ![t] = {}]
    /\ sf_buffer' = [sf_buffer EXCEPT ![t] = NoBuffer]
    /\ proxy' = [proxy EXCEPT ![t] = 0]
    /\ counter' = [counter EXCEPT ![t] = 0]
    /\ UNCHANGED <<fileVars, main_pc, completed_urls, failed_urls, lock, stats,
                   urls, submitted, taken, proxyVars, histVars, partVars,
                   batchVars, raptorVars, toolVars>>

\* scrape_concurrent: as_completed yields a done future; with self.lock
MainAcquire ==
    /\ main_pc = "collect"
    /\ stats.total < finished
    /\ CanAcquire(lock)
    /\ lock' = lock \cup {MainThread}
    /\ main_pc' = "count"
    /\ UNCHANGED <<fileVars, completed_urls, failed_urls, stats, urls, submitted,
                   taken, finished, pc, task, resp, data, dump_keys, sf_buffer, proxy,
                   counter, proxyVars, histVars, partVars, batchVars,
                   raptorVars, toolVars>>

\* a main thread that counts a future and leaves the with block without
\* releasing self.lock
MainCount_keeps_lock ==
    /\ main_pc = "count"
    /\ stats' = [stats EXCEPT !.total = @ + 1]
    /\ main_pc' = IF stats'.total = Len(urls) THEN "done" ELSE "collect"
    /\ UNCHANGED <<fileVars, completed_urls, failed_urls, lock, urls, submitted,
                   taken, finished, pc, task, resp, data, dump_keys, sf_buffer,
                   proxy, counter, proxyVars, histVars, partVars, batchVars,
                   raptorVars, toolVars>>

\* scrape_concurrent: self.stats['total'] += 1, the lock is released; after
\* the last future the executor shuts down and run() logs the summary
MainCount ==
    /\ main_pc = "count"
    /\ stats' = [stats EXCEPT !.total = @ + 1]
    /\ lock' = lock \ {MainThread}
    /\ main_pc' = IF stats'.total = Len(urls) THEN "done" ELSE "collect"
    /\ UNCHANGED <<fileVars, completed_urls, failed_urls, urls, submitted, taken,
                   finished, pc, task, resp, data, dump_keys, sf_buffer, proxy, counter,
                   proxyVars, histVars, partVars, batchVars, raptorVars, toolVars>>

\* a caller of get_next_proxy (scrape_product, lines 220-221): a pool thread
\* begins a call, the call-th made on this manager
CallGetNextProxy(t) ==
    /\ pc[t] = "idle"
    /\ proxy_manager
    /\ taken < MaxCalls
    /\ taken' = taken + 1
    /\ task' = [task EXCEPT ![t] = taken + 1]
    /\ pc' = [pc EXCEPT ![t] = "gnp_lock"]
    /\ UNCHANGED <<fileVars, main_pc, completed_urls, failed_urls, lock, stats,
                   urls, submitted, finished, resp, data, dump_keys, sf_buffer, proxy,
                   counter, proxyVars, histVars, partVars, batchVars,
                   raptorVars, toolVars>>

\* the caller has its proxy (proxy_dict, lines 222-224) and is free again
ProxyReturned(t) ==
    /\ pc[t] = "get"
    /\ pc' = [pc EXCEPT ![t] = "idle"]
    /\ task' = [task EXCEPT ![t] = 0]
    /\ proxy' = [proxy EXCEPT ![t] = 0]
    /\ UNCHANGED <<fileVars, main_pc, completed_urls, failed_urls, lock, stats,
                   urls, submitted, taken, finished, resp, data, dump_keys, sf_buffer,
                   counter, proxyVars, histVars, partVars, batchVars,
                   raptorVars, toolVars>>

IdleScraper ==
    /\ url_file = <<>>
    /\ webshare_api_key = FALSE
    /\ checkpoint_file = AbsentFile
    /\ failed_file = AbsentFile
    /\ main_pc = "start"
    /\ completed_urls = {}
    /\ failed_urls = EmptyDict
    /\ lock = {}
    /\ stats = FreshStats
    /\ urls = <<>>
    /\ submitted = 0
    /\ taken = 0
    /\ finished = 0
    /\ pc = [t \in Threads |-> "idle"]
    /\ task = [t \in Threads |-> 0]
    /\ resp = [t \in Threads |-> "none"]
    /\ data = [t \in Threads |-> EmptyDict]
    /\ dump_keys = [t \in Threads |-> {}]
    /\ sf_buffer = [t \in Threads |-> NoBuffer]
    /\ proxy = [t \in Threads |-> 0]
    /\ counter = [t \in Threads |-> 0]
    /\ proxy_manager = FALSE
    /\ proxies = <<>>
    /\ proxy_index = 0
    /\ proxy_lock = {}
    /\ proxy_stats = <<>>
    /\ runs = 1
    /\ load_error = FALSE
    /\ committed = {}
    /\ run_committed = {}
    /\ first_commit = EmptyDict
    /\ grant_order = <<>>
    /\ granted = EmptyDict

\* the values of the variables a specification does not use
IdlePart ==
    /\ product_urls = <<>>
    /\ start_index = 0
    /\ total_products = 0
    /\ total_workers = 1
    /\ started = {}
    /\ my_urls = [w \in {0} |-> <<>>]
    /\ loaded = {}
    /\ collection_urls = [w \in {0} |-> <<>>]

IdleBatch ==
    /\ url_lines = <<>>
    /\ batch_size = 1
    /\ total_urls = 0
    /\ scraped_batches = {}
    /\ batch_urls = [b \in 0..MaxBatchId |-> <<>>]
    /\ generated = {}
    /\ gen_urls = [b \in 0..MaxBatchId |-> <<>>]

(***************************************************************************)
(* RaptorSuppliesScraper (raptorsupplies_scraper.py): one thread going     *)
(* through scrape_range, one scrape_product call per product id.           *)
(***************************************************************************)
RaptorOutcomes == {"ok", "unparsed", "not_found", "forbidden", "http_other",
                   "timeout", "exception"}
    \* 200 and _parse_product gives a product; 200 and it gives None; 404;
    \* 403; any other status; requests.exceptions.Timeout; another exception

\* the outcomes scrape_product hands to _handle_error
Failures == {"forbidden", "http_other", "timeout", "exception"}

NoFile == [error_type |-> "none", consecutive_errors |-> 0]

\* the error_type scrape_product gives _handle_error
ErrorTypeOf(o) ==
    CASE o = "forbidden" -> "HTTP_403"
      [] o = "http_other" -> "HTTP_other"
      [] o = "timeout" -> "TIMEOUT"
      [] OTHER -> "EXCEPTION"

\* a rotation that lets the session serve one request too many
needs_new_session_late(sess, in_session, max_requests) ==
    sess = 0 \/ in_session > max_requests

\* _get_session: self.session is None or
\* self.requests_in_session >= max_requests
needs_new_session(sess, in_session, max_requests) ==
    sess = 0 \/ in_session >= max_requests

\* a check that forgets to reset the counter when the cooldown has ended
check_ban_status_keeps_count(ban, t, until, errs) ==
    IF ban /\ t < until
    THEN [allowed |-> FALSE, ban_detected |-> ban, consecutive_errors |-> errs]
    ELSE [allowed |-> TRUE, ban_detected |-> FALSE, consecutive_errors |-> errs]

\* _check_ban_status: what it returns and what it leaves in ban_detected and
\* consecutive_errors
check_ban_status(ban, t, until, errs) ==
    IF ban
    THEN IF t < until
         THEN [allowed |-> FALSE, ban_detected |-> ban,
               consecutive_errors |-> errs]
         ELSE [allowed |-> TRUE, ban_detected |-> FALSE,
               consecutive_errors |-> 0]
    ELSE [allowed |-> TRUE, ban_detected |-> ban, consecutive_errors |-> errs]

\* a ban detection that needs one error more than the threshold
handle_error_late(errs, ban, until, t) ==
    IF errs + 1 > check_after_errors
    THEN [consecutive_errors |-> errs + 1, ban_detected |-> TRUE,
          cooldown_until |-> t + cooldown_period, bans |-> 1]
    ELSE [consecutive_errors |-> errs + 1, ban_detected |-> ban,
          cooldown_until |-> until, bans |-> 0]

\* _handle_error: consecutive_errors += 1, then the ban detection
handle_error(errs, ban, until, t) ==
    IF errs + 1 >= check_after_errors
    THEN [consecutive_errors |-> errs + 1, ban_detected |-> TRUE,
          cooldown_until |-> t + cooldown_period, bans |-> 1]
    ELSE [consecutive_errors |-> errs + 1, ban_detected |-> ban,
          cooldown_until |-> until, bans |-> 0]

\* a retry loop that gives up one attempt early
has_retry_short(a, retries) == a < retries - 2

\* scrape_product: if attempt < max_retries - 1 (sleep and continue)
has_retry(a, retries) == a < retries - 1

\* scrape_product: the seconds slept before the next attempt
backoff(o, a) ==
    CASE o = "forbidden" -> (a + 1) * 30
      [] o = "http_other" -> (a + 1) * 10
      [] OTHER -> (a + 1) * 5

\* what _load_checkpoint makes of a checkpoint file that does not exist
NoCheckpoint == [last_product_id |-> 0, products_scraped |-> 0]

\* _apply_rate_limit: the seconds it sleeps at time t when the draw of
\* random.uniform(min_delay, max_delay) is delay
rate_limit_wait(t, last, delay) ==
    IF t - last < delay THEN delay - (t - last) ELSE 0

\* scrape_product: products_scraped % checkpoint_interval == 0
checkpoint_due(scraped, interval) == scraped % interval = 0

\* a scraper that __init__ has just made, with no checkpoint file to load
FreshRaptor ==
    /\ now = 0
    /\ session = 0
    /\ session_headers = 0
    /\ closed = {}
    /\ requests_in_session = 0
    /\ consecutive_errors = 0
    /\ ban_detected = FALSE
    /\ cooldown_until = 0
    /\ raptor_stats = [failed_scrapes |-> 0, bans_detected |-> 0,
                       products_scraped |-> 0]
    /\ last_product_id = 0
    /\ error_files = [i \in 1..end_id |-> NoFile]
    /\ rpc = "idle"
    /\ product_id = 0
    /\ attempt = 0
    /\ status = "none"
    /\ attempts = 0
    /\ timeouts = 0
    /\ errors_before = 0
    /\ wait_time = 0
    /\ result = "none"
    /\ blocked_run = 0
    \* self.last_request_time = 0 is the epoch, which lies further back from
    \* the making of the scraper (now = 0) than any delay
    /\ last_request_time = 0 - MaxDelay
    /\ raptor_checkpoint = NoCheckpoint
    /\ session_requests = 0
    /\ last_get_time = -1
    /\ request_gap = -1

InitRaptor ==
    /\ requests_per_session \in 1..MaxPerSession
    /\ check_after_errors \in 1..MaxThreshold
    /\ cooldown_period \in {ShortCooldown, LongCooldown}
    /\ max_retries \in 1..MaxRetries
    /\ min_delay_seconds \in 0..MaxDelay
    /\ max_delay_seconds \in min_delay_seconds..MaxDelay
    /\ checkpoint_interval \in 1..MaxInterval
    /\ storage_faults \in BOOLEAN
    /\ FreshRaptor

\* a configuration with no pacing delay, a checkpoint after every product
\* and storage that takes every write
PlainConfig ==
    /\ min_delay_seconds = 0
    /\ max_delay_seconds = 0
    /\ checkpoint_interval = 1
    /\ storage_faults = FALSE

IdleRaptor ==
    /\ requests_per_session = 1
    /\ check_after_errors = 1
    /\ cooldown_period = ShortCooldown
    /\ max_retries = 1
    /\ PlainConfig
    /\ FreshRaptor

\* scrape_range: the next product_id of the range, scrape_product is called
StartItem ==
    /\ rpc = "idle"
    /\ product_id < end_id
    /\ product_id' = product_id + 1
    /\ rpc' = "check_ban"
    /\ attempt' = 0
    /\ status' = "none"
    /\ attempts' = 0
    /\ timeouts' = 0
    /\ errors_before' = consecutive_errors
    /\ wait_time' = 0
    /\ result' = "pending"
    /\ UNCHANGED <<raptorConfig, now, session, session_headers, closed,
                   requests_in_session, consecutive_errors, ban_detected,
                   cooldown_until, raptor_stats, last_product_id, error_files,
                   blocked_run, last_request_time, raptor_checkpoint,
                   session_requests, last_get_time, request_gap, partVars,
                   batchVars, scraperVars, toolVars>>

\* scrape_product: if not self._check_ban_status(): time.sleep(10); return None
CheckBanStatus ==
    /\ rpc = "check_ban"
    /\ LET c == check_ban_status(ban_detected, now, cooldown_until,
                                 consecutive_errors)
       IN  /\ ban_detected' = c.ban_detected
           /\ consecutive_errors' = c.consecutive_errors
           /\ blocked_run' = IF c.consecutive_errors = consecutive_errors
                             THEN blocked_run ELSE 0
           /\ now' = IF c.allowed THEN now ELSE now + 10
           /\ rpc' = IF c.allowed THEN "rate_limit" ELSE "idle"
           /\ result' = IF c.allowed THEN result ELSE "refused"
    /\ UNCHANGED <<raptorConfig, session, session_headers, closed,
                   requests_in_session, cooldown_until, raptor_stats,
                   last_product_id, error_files, product_id, attempt, status,
                   attempts, timeouts, errors_before, wait_time,
                   last_request_time, raptor_checkpoint, session_requests,
                   last_get_time, request_gap, partVars, batchVars,
                   scraperVars, toolVars>>

\* _apply_rate_limit: delay = random.uniform(min_delay, max_delay), sleep for
\* what is left of it since self.last_request_time, then
\* self.last_request_time = time.time()
ApplyRateLimit ==
    /\ rpc = "rate_limit"
    /\ \E delay \in min_delay_seconds..max_delay_seconds :
          now' = now + rate_limit_wait(now, last_request_time, delay)
    /\ last_request_time' = now'
    /\ rpc' = "get_session"
    /\ UNCHANGED <<raptorConfig, session, session_headers, closed,
                   requests_in_session, consecutive_errors, ban_detected,
                   cooldown_until, raptor_stats, last_product_id, error_files,
                   product_id, attempt, status, attempts, timeouts,
                   errors_before, wait_time, result, blocked_run,
                   raptor_checkpoint, session_requests, last_get_time,
                   request_gap, partVars, batchVars, scraperVars, toolVars>>

\* _get_session: close the session and make a new one with _get_headers()
\* when there is none or it has served requests_per_session requests
GetSession ==
    /\ rpc = "get_session"
    /\ IF needs_new_session(session, requests_in_session, requests_per_session)
       THEN /\ closed' = IF session # 0 THEN closed \cup {session} ELSE closed
            /\ session' = product_id
            /\ requests_in_session' = 0
            /\ session_headers' = product_id
            /\ session_requests' = 0
       ELSE UNCHANGED <<closed, session, requests_in_session, session_headers,
                        session_requests, toolVars>>
    /\ rpc' = "count_request"
    /\ UNCHANGED <<raptorConfig, now, consecutive_errors, ban_detected,
                   cooldown_until, raptor_stats, last_product_id, error_files,
                   product_id, attempt, status, attempts, timeouts,
                   errors_before, wait_time, result, blocked_run,
                   last_request_time, raptor_checkpoint, last_get_time,
                   request_gap, partVars, batchVars, scraperVars, toolVars>>

\* scrape_product: self.requests_in_session += 1
CountRequest ==
    /\ rpc = "count_request"
    /\ requests_in_session' = requests_in_session + 1
    /\ rpc' = "request"
    /\ UNCHANGED <<raptorConfig, now, session, session_headers, closed,
                   consecutive_errors, ban_detected, cooldown_until,
                   raptor_stats, last_product_id, error_files, product_id,
                   attempt, status, attempts, timeouts, errors_before,
                   wait_time, result, blocked_run, last_request_time,
                   raptor_checkpoint, session_requests, last_get_time,
                   request_gap, partVars, batchVars, scraperVars, toolVars>>

\* scrape_product: for attempt in range(max_retries): session.get(url, ...);
\* return None when the range is used up
IssueRequest ==
    /\ rpc = "request"
    /\ IF attempt < max_retries
       THEN /\ rpc' = "wait"
            /\ attempts' = attempts + 1
            /\ errors_before' = consecutive_errors
            /\ result' = result
            /\ session_requests' = session_requests + 1
            /\ request_gap' = IF last_get_time = -1 THEN -1
                              ELSE now - last_get_time
            /\ last_get_time' = now
       ELSE /\ rpc' = "idle"
            /\ attempts' = attempts
            /\ errors_before' = errors_before
            /\ result' = "none"
            /\ UNCHANGED <<session_requests, request_gap, last_get_time, toolVars>>
    /\ UNCHANGED <<raptorConfig, now, session, session_headers, closed,
                   requests_in_session, consecutive_errors, ban_detected,
                   cooldown_until, raptor_stats, last_product_id, error_files,
                   product_id, attempt, status, timeouts, wait_time,
                   blocked_run, last_request_time, raptor_checkpoint, partVars,
                   batchVars, scraperVars, toolVars>>

\* how many times _handle_error has run when an attempt with outcome o ends.
\* When its write of error_<id>.json raises (raised) after a 403 or another
\* status, the except Exception branch of scrape_product calls it once more;
\* when _save_checkpoint raises after a parsed 200 (due), that branch calls
\* it once.
handle_error_calls(o, raised, due) ==
    CASE ~raised -> IF o \in Failures THEN 1 ELSE 0
      [] o \in {"forbidden", "http_other"} -> 2
      [] o = "ok" /\ ~due -> 0
      [] OTHER -> 1

\* scrape_product: the response (or the exception) of the attempt and what
\* the loop body does with it, up to the next session.get or the return; for
\* a product, scrape_range's _save_product as well.  write_ok tells whether
\* the writes of this attempt (error_<id>.json, the checkpoint file,
\* product_<id>.json) go through: when they do not, open() raises, in the
\* except branches and in scrape_range nothing catches it, and it leaves
\* scrape_range.
Response ==
    /\ rpc = "wait"
    /\ \E o \in RaptorOutcomes :
       \E write_ok \in (IF storage_faults THEN BOOLEAN ELSE {TRUE}) :
          LET fail == o \in Failures
              h == handle_error(consecutive_errors, ban_detected,
                                cooldown_until, now)
              scraped == raptor_stats.products_scraped
                           + (IF o = "ok" THEN 1 ELSE 0)
              due == o = "ok" /\ checkpoint_due(scraped, checkpoint_interval)
              raised == ~write_ok /\ (fail \/ o = "ok")
              handled == handle_error_calls(o, raised, due)
              retry == fail /\ ~raised /\ has_retry(attempt, max_retries)
              w == IF retry THEN backoff(o, attempt) ELSE 0
          IN  /\ status' = o
              /\ consecutive_errors' =
                    CASE raised /\ o = "ok" -> handled
                      [] raised -> consecutive_errors + handled
                      [] o \in {"ok", "not_found"} -> 0
                      [] fail -> h.consecutive_errors
                      [] OTHER -> consecutive_errors
              /\ ban_detected' = IF fail /\ ~raised THEN h.ban_detected
                                 ELSE ban_detected
              /\ cooldown_until' = IF fail /\ ~raised THEN h.cooldown_until
                                   ELSE cooldown_until
              /\ raptor_stats' =
                    [failed_scrapes |-> raptor_stats.failed_scrapes + handled,
                     bans_detected |-> raptor_stats.bans_detected
                                         + (IF fail /\ ~raised THEN h.bans
                                            ELSE 0),
                     products_scraped |-> scraped]
              /\ error_files' =
                    IF fail /\ ~raised
                    THEN [error_files EXCEPT ![product_id] =
                             [error_type |-> ErrorTypeOf(o),
                              consecutive_errors |-> h.consecutive_errors]]
                    ELSE error_files
              /\ last_product_id' = IF o = "ok" THEN product_id
                                    ELSE last_product_id
              /\ raptor_checkpoint' =
                    IF due /\ ~raised
                    THEN [last_product_id |-> product_id,
                          products_scraped |-> scraped]
                    ELSE raptor_checkpoint
              /\ timeouts' = IF o = "timeout" THEN timeouts + 1 ELSE timeouts
              /\ blocked_run' = IF o = "forbidden" THEN blocked_run + 1 ELSE 0
              /\ wait_time' = w
              /\ now' = now + w
              /\ attempt' = IF retry THEN attempt + 1 ELSE attempt
              /\ rpc' = CASE raised -> "aborted"
                          [] retry -> "request"
                          [] OTHER -> "idle"
              /\ result' = CASE raised -> "raised"
                             [] retry -> result
                             [] o = "ok" -> "product"
                             [] OTHER -> "none"
    /\ UNCHANGED <<raptorConfig, session, session_headers, closed,
                   requests_in_session, product_id, attempts, errors_before,
                   last_request_time, session_requests, last_get_time,
                   request_gap, partVars, batchVars, scraperVars, toolVars>>

\* an output file that was not written
NoOutput == [written |-> FALSE, products |-> <<>>]

\* a metadata file that was not written
NoMetadata == [written |-> FALSE, success_count |-> 0, failed_count |-> 0]

\* a log file of GitHubScraper that does not exist
NoLog == [kind |-> "absent", workflows |-> <<>>]

(***************************************************************************)
(* github_scraper.py: GitHubScraper.retry_failed_workflows.  A log file is *)
(* [kind, workflows]: kind "absent", "json" (a complete dump) or "partial" *)
(* (opened for writing and truncated, the dump not completed); workflows   *)
(* is the list the file holds, each entry standing for its workflow_num.   *)
(***************************************************************************)
JsonLog(workflows) == [kind |-> "json", workflows |-> workflows]
PartialLog == [kind |-> "partial", workflows |-> <<>>]

\* the elements of a list
Elems(lst) == {lst[k] : k \in 1..Len(lst)}

\* the increasing list of the elements of a set of workflow numbers
RECURSIVE Ascending(_)
Ascending(S) ==
    IF S = {} THEN <<>>
    ELSE LET w == CHOOSE x \in S : \A y \in S : x <= y
         IN  <<w>> \o Ascending(S \ {w})

\* GitHubScraper(): what load_errors and load_progress read
loaded_workflows(log) == IF log.kind = "json" THEN log.workflows ELSE <<>>

\* github_scraper.py --retry-failed after a run_scrape that triggered the
\* workflows 1..MaxWorkflows in turn: each is in completed_workflows or in
\* failed_workflows, and both logs were saved
InitGithub ==
    /\ \E F \in SUBSET (1..MaxWorkflows) :
          /\ ERROR_LOG = JsonLog(Ascending(F))
          /\ PROGRESS_LOG = JsonLog(Ascending((1..MaxWorkflows) \ F))
          /\ owed = F
    /\ errors = loaded_workflows(ERROR_LOG)
    /\ progress = loaded_workflows(PROGRESS_LOG)
    /\ failed = <<>>
    /\ retry_i = 0
    /\ github_pc = "start"
    /\ github_runs = 1

\* retry_failed_workflows, lines 228-238: nothing to retry, or copy and clear
RetryStart ==
    /\ github_pc = "start"
    /\ failed' = errors
    /\ errors' = <<>>
    /\ retry_i' = 0
    /\ github_pc' = IF errors = <<>> THEN "done" ELSE "trigger"
    /\ UNCHANGED <<ERROR_LOG, PROGRESS_LOG, progress, owed, github_runs,
                   partVars, batchVars, scraperVars, raptorVars, orchVars,
                   aggVars, counterVars>>

\* lines 240-251: trigger_workflow answers 204 or not (it raises nothing)
TriggerWorkflow ==
    /\ github_pc = "trigger"
    /\ \E success \in BOOLEAN :
          LET workflow_num == failed[retry_i + 1] IN
          /\ progress' = IF success THEN Append(progress, workflow_num)
                         ELSE progress
          /\ errors' = IF success THEN errors ELSE Append(errors, workflow_num)
          /\ owed' = IF success THEN owed \ {workflow_num} ELSE owed
    /\ github_pc' = "save_progress"
    /\ UNCHANGED <<ERROR_LOG, PROGRESS_LOG, failed, retry_i, github_runs,
                   partVars, batchVars, scraperVars, raptorVars, orchVars,
                   aggVars, counterVars>>

\* save_progress: open(PROGRESS_LOG, 'w') truncates the file
SaveProgressOpen ==
    /\ github_pc = "save_progress"
    /\ PROGRESS_LOG' = PartialLog
    /\ github_pc' = "save_progress_dump"
    /\ UNCHANGED <<ERROR_LOG, errors, progress, failed, retry_i, owed,
                   github_runs, partVars, batchVars, scraperVars, raptorVars,
                   orchVars, aggVars, counterVars>>

\* save_progress: json.dump and the close
SaveProgressDump ==
    /\ github_pc = "save_progress_dump"
    /\ PROGRESS_LOG' = JsonLog(progress)
    /\ github_pc' = "save_errors"
    /\ UNCHANGED <<ERROR_LOG, errors, progress, failed, retry_i, owed,
                   github_runs, partVars, batchVars, scraperVars, raptorVars,
                   orchVars, aggVars, counterVars>>

\* save_errors: open(ERROR_LOG, 'w') truncates the file
SaveErrorsOpen ==
    /\ github_pc = "save_errors"
    /\ ERROR_LOG' = PartialLog
    /\ github_pc' = "save_errors_dump"
    /\ UNCHANGED <<PROGRESS_LOG, errors, progress, failed, retry_i, owed,
                   github_runs, partVars, batchVars, scraperVars, raptorVars,
                   orchVars, aggVars, counterVars>>

\* save_errors: json.dump and the close; then the loop goes on (after the
\* sleep) or ends
SaveErrorsDump ==
    /\ github_pc = "save_errors_dump"
    /\ ERROR_LOG' = JsonLog(errors)
    /\ retry_i' = retry_i + 1
    /\ github_pc' = IF retry_i + 1 < Len(failed) THEN "trigger" ELSE "done"
    /\ UNCHANGED <<PROGRESS_LOG, errors, progress, failed, owed, github_runs,
                   partVars, batchVars, scraperVars, raptorVars, orchVars,
                   aggVars, counterVars>>

\* the process is killed, or has ended, and github_scraper.py --retry-failed
\* is started again: GitHubScraper() loads both logs; json.load raises on a
\* log left truncated and the script ends there
GithubRestart ==
    /\ github_pc # "crashed"
    /\ github_runs < MaxGithubRuns
    /\ github_runs' = github_runs + 1
    /\ errors' = loaded_workflows(ERROR_LOG)
    /\ progress' = loaded_workflows(PROGRESS_LOG)
    /\ failed' = <<>>
    /\ retry_i' = 0
    /\ github_pc' = IF "partial" \in {ERROR_LOG.kind, PROGRESS_LOG.kind}
                    THEN "crashed" ELSE "start"
    /\ UNCHANGED <<ERROR_LOG, PROGRESS_LOG, owed, partVars, batchVars,
                   scraperVars, raptorVars, orchVars, aggVars, counterVars>>

(***************************************************************************)
(* serverless/batch_scraper.py: the counters of BatchScraper.scrape_batch. *)
(***************************************************************************)
\* after __init__ and generate_urls, every URL submitted to the executor
InitBatchScraper ==
    /\ batch_len \in 0..MaxBatchLen
    /\ future = [k \in 1..batch_len |-> "pending"]
    /\ seen_count = [k \in 1..batch_len |-> 0]
    /\ success_count = 0
    /\ failed_count = 0
    /\ products = <<>>
    /\ batch_failed_urls = <<>>
    /\ batch_pc = "collect"
    /\ batch_metadata = NoMetadata

\* the scrape_product calls a pool thread is running (the pool of
\* scrape_batch has max_workers threads, like the one of URLFileScraper)
BatchRunning == {k \in 1..batch_len : future[k] \in {"running", "counting"}}

\* a free pool thread takes the next queued call and sends its request
BatchTake(k) ==
    /\ future[k] = "pending"
    /\ \A j \in 1..(k - 1) : future[j] # "pending"
    /\ Cardinality(BatchRunning) < max_workers
    /\ future' = [future EXCEPT ![k] = "running"]
    /\ UNCHANGED <<batch_len, seen_count, success_count, failed_count, products,
                   batch_failed_urls, batch_pc, batch_metadata, partVars,
                   batchVars, scraperVars, raptorVars, orchVars, aggVars,
                   githubVars>>

\* scrape_product: a status other than 200 or an exception; the url is
\* appended to failed_urls and the call returns None (lines 165-172, 281-297)
BatchFailure(k) ==
    /\ future[k] = "running"
    /\ batch_failed_urls' = Append(batch_failed_urls, k)
    /\ future' = [future EXCEPT ![k] = "none"]
    /\ UNCHANGED <<batch_len, seen_count, success_count, failed_count, products,
                   batch_pc, batch_metadata, partVars, batchVars, scraperVars,
                   raptorVars, orchVars, aggVars, githubVars>>

\* scrape_product, line 278: self.success_count += 1 reads the counter
BatchReadCount(k) ==
    /\ future[k] = "running"
    /\ seen_count' = [seen_count EXCEPT ![k] = success_count]
    /\ future' = [future EXCEPT ![k] = "counting"]
    /\ UNCHANGED <<batch_len, success_count, failed_count, products,
                   batch_failed_urls, batch_pc, batch_metadata, partVars,
                   batchVars, scraperVars, raptorVars, orchVars, aggVars,
                   githubVars>>

\* scrape_product, lines 278-279: the += stores the sum; the product is returned
BatchWriteCount(k) ==
    /\ future[k] = "counting"
    /\ success_count' = seen_count[k] + 1
    /\ future' = [future EXCEPT ![k] = "product"]
    /\ UNCHANGED <<batch_len, seen_count, failed_count, products,
                   batch_failed_urls, batch_pc, batch_metadata, partVars,
                   batchVars, scraperVars, raptorVars, orchVars, aggVars,
                   githubVars>>

\* scrape_batch, lines 317-335: as_completed yields a finished future;
\* future.result() returns what scrape_product returned (it raises nothing
\* scrape_product has not caught, so the except branch with
\* failed_count += 1 is not taken)
BatchCollect(k) ==
    /\ batch_pc = "collect"
    /\ future[k] \in {"none", "product"}
    /\ products' = IF future[k] = "product" THEN Append(products, k)
                   ELSE products
    /\ future' = [future EXCEPT ![k] = "collected"]
    /\ UNCHANGED <<batch_len, seen_count, success_count, failed_count,
                   batch_failed_urls, batch_pc, batch_metadata, partVars,
                   batchVars, scraperVars, raptorVars, orchVars, aggVars,
                   githubVars>>

\* scrape_batch: every future was yielded; the executor is shut down and the
\* statistics are logged
BatchFinished ==
    /\ batch_pc = "collect"
    /\ \A k \in 1..batch_len : future[k] = "collected"
    /\ batch_pc' = "finished"
    /\ UNCHANGED <<batch_len, future, seen_count, success_count, failed_count,
                   products, batch_failed_urls, batch_metadata, partVars,
                   batchVars, scraperVars, raptorVars, orchVars, aggVars,
                   githubVars>>

\* save_results: the metadata file
SaveResults ==
    /\ batch_pc = "finished"
    /\ batch_metadata' = [written |-> TRUE, success_count |-> success_count,
                          failed_count |-> failed_count]
    /\ batch_pc' = "saved"
    /\ UNCHANGED <<batch_len, future, seen_count, success_count, failed_count,
                   products, batch_failed_urls, partVars, batchVars,
                   scraperVars, raptorVars, orchVars, aggVars, githubVars>>

(***************************************************************************)
(* ultra_scrape_orchestrator.py: the batch range of each Azure Function.   *)
(***************************************************************************)
\* the script after line 36: ultra_config.json lists at least one function
\* (with none, line 36 divides by zero and the script ends there)
InitOrch ==
    /\ TOTAL_BATCHES \in 0..MaxTotalBatches
    /\ functions \in {[i \in 1..F |-> i] : F \in 1..MaxFunctions}
    /\ batches_per_function = TOTAL_BATCHES \div Len(functions)
    /\ function_assignments = <<>>
    /\ current_batch = 0
    /\ orch_i = 0

\* a variant of end_batch in which the last function is treated like the others
end_batch_like_the_others(i) ==
    Min(current_batch + batches_per_function, TOTAL_BATCHES)

\* end_batch of the iteration with index i
end_batch(i) ==
    IF i = Len(functions) - 1
    THEN TOTAL_BATCHES
    ELSE Min(current_batch + batches_per_function, TOTAL_BATCHES)

\* one iteration of the loop over enumerate(functions)
AssignFunction ==
    /\ orch_i < Len(functions)
    /\ function_assignments' =
           Append(function_assignments,
                  [function |-> functions[orch_i + 1],
                   start_batch |-> current_batch,
                   end_batch |-> end_batch(orch_i),
                   total_batches |-> end_batch(orch_i) - current_batch])
    /\ current_batch' = end_batch(orch_i)
    /\ orch_i' = orch_i + 1
    /\ UNCHANGED <<TOTAL_BATCHES, functions, batches_per_function, partVars,
                   batchVars, scraperVars, raptorVars, aggVars, counterVars,
                   githubVars>>

(***************************************************************************)
(* The aggregators: consolidate_data.py, raptorsupplies_aggregate.py and   *)
(* AutoFetchService.consolidate_data.                                      *)
(***************************************************************************)
AggUrls == {"", "a", "b"}
    \* product.get('url'): absent or empty, or one of two URLs
AggNames == {"", "n1", "n2"}
    \* product.get('name'): absent or empty, or one of two names

\* the records of the result files: products with or without a url and a
\* name, and failure entries, which carry an 'error' key and no name
AggRecords ==
    {r \in [url : AggUrls, name : AggNames, error : BOOLEAN] :
        r.error => r.name = ""}

\* the result files: each one a JSON list of records
ResultFiles == SeqsUpTo(SeqsUpTo(AggRecords, MaxRecords), MaxFiles)

InitAgg ==
    /\ result_files \in ResultFiles
    /\ consolidated_products = NoOutput
    /\ raptor_products_final = NoOutput
    /\ auto_consolidated_products = NoOutput

\* the records of all files, in the order the loops over the files and over
\* the records of a file meet them
RECURSIVE AllRecords(_)
AllRecords(files) ==
    IF files = <<>> THEN <<>> ELSE Head(files) \o AllRecords(Tail(files))

\* url in all_products, for a dict kept as the list of its values
HasUrl(all_products, url) ==
    \E k \in 1..Len(all_products) : all_products[k].url = url

\* consolidate_data.py, lines 56-75: the loop over the products
RECURSIVE consolidate_data_loop(_, _)
consolidate_data_loop(ps, all_products) ==
    IF ps = <<>> THEN all_products
    ELSE LET product == Head(ps) IN
         consolidate_data_loop(Tail(ps),
             IF product.error THEN all_products
             ELSE IF product.name = "" THEN all_products
             ELSE IF product.url # "" /\ ~HasUrl(all_products, product.url)
                  THEN Append(all_products, product)
                  ELSE all_products)

\* AutoFetchService.consolidate_data, lines 198-206: the loop over the products
RECURSIVE auto_fetch_loop(_, _)
auto_fetch_loop(ps, all_products) ==
    IF ps = <<>> THEN all_products
    ELSE LET product == Head(ps) IN
         auto_fetch_loop(Tail(ps),
             IF product.url # "" /\ ~HasUrl(all_products, product.url)
             THEN Append(all_products, product)
             ELSE all_products)

\* unique_products[url] = product: a key already present keeps its place in
\* the dict and takes the new value
dict_put(unique_products, product) ==
    IF HasUrl(unique_products, product.url)
    THEN [k \in 1..Len(unique_products) |->
             IF unique_products[k].url = product.url THEN product
             ELSE unique_products[k]]
    ELSE Append(unique_products, product)

\* aggregate_results, lines 49-56: remove duplicates (by URL)
RECURSIVE aggregate_loop(_, _)
aggregate_loop(ps, unique_products) ==
    IF ps = <<>> THEN unique_products
    ELSE LET product == Head(ps) IN
         aggregate_loop(Tail(ps),
             IF product.url # "" THEN dict_put(unique_products, product)
             ELSE unique_products)

\* consolidate_data() runs; with no product left it returns before it writes
ConsolidateData ==
    /\ ~consolidated_products.written
    /\ consolidate_data_loop(AllRecords(result_files), <<>>) # <<>>
    /\ consolidated_products' =
           [written |-> TRUE,
            products |-> consolidate_data_loop(AllRecords(result_files), <<>>)]
    /\ UNCHANGED <<result_files, raptor_products_final,
                   auto_consolidated_products, partVars, batchVars,
                   scraperVars, raptorVars, orchVars, counterVars, githubVars>>

\* aggregate_results() runs
AggregateResults ==
    /\ ~raptor_products_final.written
    /\ raptor_products_final' =
           [written |-> TRUE,
            products |-> aggregate_loop(AllRecords(result_files), <<>>)]
    /\ UNCHANGED <<result_files, consolidated_products,
                   auto_consolidated_products, partVars, batchVars,
                   scraperVars, raptorVars, orchVars, counterVars, githubVars>>

\* AutoFetchService.consolidate_data() runs
AutoFetchConsolidate ==
    /\ ~auto_consolidated_products.written
    /\ auto_consolidated_products' =
           [written |-> TRUE,
            products |-> auto_fetch_loop(AllRecords(result_files), <<>>)]
    /\ UNCHANGED <<result_files, consolidated_products, raptor_products_final,
                   partVars, batchVars, scraperVars, raptorVars, orchVars,
                   counterVars, githubVars>>

IdleOrch ==
    /\ TOTAL_BATCHES = 0
    /\ functions = <<1>>
    /\ batches_per_function = 0
    /\ function_assignments = <<>>
    /\ current_batch = 0
    /\ orch_i = 0

IdleAgg ==
    /\ result_files = <<>>
    /\ consolidated_products = NoOutput
    /\ raptor_products_final = NoOutput
    /\ auto_consolidated_products = NoOutput

IdleCounters ==
    /\ batch_len = 0
    /\ future = <<>>
    /\ seen_count = <<>>
    /\ success_count = 0
    /\ failed_count = 0
    /\ products = <<>>
    /\ batch_failed_urls = <<>>
    /\ batch_pc = "collect"
    /\ batch_metadata = NoMetadata

IdleGithub ==
    /\ ERROR_LOG = NoLog
    /\ PROGRESS_LOG = NoLog
    /\ errors = <<>>
    /\ progress = <<>>
    /\ failed = <<>>
    /\ retry_i = 0
    /\ github_pc = "start"
    /\ owed = {}
    /\ github_runs = 1

IdleTools == IdleOrch /\ IdleAgg /\ IdleCounters /\ IdleGithub


(***************************************************************************)
(* Specifications.                                                         *)
(***************************************************************************)
\* the workers of one deployment, each constructed once, nothing else running
InitPartitioners == InitPart /\ IdleBatch /\ IdleScraper /\ IdleRaptor /\ IdleTools
NextPart ==
    \/ \E w \in 0..(total_workers - 1) : AssignBatch(w)
    \/ \E w \in 0..(total_workers - 1) : LoadCollectionUrls(w)

SpecPart == InitPartitioners /\ [][NextPart]_vars

\* the batches of one URL file, each generated once, nothing else running
InitBatches == InitBatch /\ IdlePart /\ IdleScraper /\ IdleRaptor /\ IdleTools
NextBatch ==
    \/ \E b \in 0..MaxBatchId : GenerateUrls(b)
    \/ \E b \in 0..MaxBatchId : GenerateUrlsForBatch(b)

SpecBatch == InitBatches /\ [][NextBatch]_vars

\* the steps of URLFileScraper that need no proxy manager
ScraperStep ==
    \/ Construct
    \/ LoadUrls
    \/ Submit
    \/ MainAcquire
    \/ MainCount
    \/ \E t \in Threads :
          \/ TakeTask(t)
          \/ SendRequest(t)
          \/ ReceiveResponse(t)
          \/ CountAcquire(t)
          \/ Count(t)
          \/ SaveCheckpointAcquire(t)
          \/ SaveCheckpointRead(t)
          \/ SaveCheckpointOpen(t)
          \/ SaveCheckpointDump(t)
          \/ SaveFailedInsert(t)
          \/ SaveFailedOpen(t)
          \/ SaveFailedDump(t)
          \/ SaveFailedClose(t)
          \/ FinishTask(t)

\* the steps of a URLFileScraper that has a proxy manager
ProxyStep ==
    \E t \in Threads :
        \/ GetNextProxyAcquire(t)
        \/ GetNextProxySelect(t)
        \/ GetNextProxyAdvance(t)
        \/ RecordRead(t)
        \/ RecordWrite(t)

\* URLFileScraper started without an API key, killed and restarted
InitCkpt ==
    /\ InitScraper /\ webshare_api_key = FALSE
    /\ IdlePart /\ IdleBatch /\ IdleRaptor /\ IdleTools
NextCkpt == ScraperStep \/ Kill
SpecCkpt == InitCkpt /\ [][NextCkpt]_vars

\* one run of URLFileScraper started with an API key
InitProxy ==
    /\ InitScraper /\ webshare_api_key = TRUE
    /\ IdlePart /\ IdleBatch /\ IdleRaptor /\ IdleTools
NextProxy == ScraperStep \/ ProxyStep
SpecProxy == InitProxy /\ [][NextProxy]_vars

\* one run of URLFileScraper with an API key on as many URLs as the pool has
\* threads, every thread being scheduled again and again: a step that stays
\* possible is eventually taken (the operating system runs every runnable
\* thread, a request returns or times out, a free lock is granted)
InitTerminate ==
    /\ url_file \in {f \in UrlFiles : Len(f) = max_workers}
    /\ webshare_api_key = TRUE
    /\ FreshScraper
    /\ IdlePart /\ IdleBatch /\ IdleRaptor /\ IdleTools
SpecTerminate == InitTerminate /\ [][NextProxy]_vars /\ WF_vars(NextProxy)

\* a WebshareProxyManager whose fetch_proxies listed n >= 1 proxies, and
\* pool threads that call get_next_proxy on it
InitPool ==
    /\ InitScraper /\ IdlePart /\ IdleBatch /\ IdleRaptor /\ IdleTools
    /\ webshare_api_key = TRUE
NextPool ==
    \/ Construct
    \/ \E t \in Threads :
          \/ CallGetNextProxy(t)
          \/ GetNextProxyAcquire(t)
          \/ GetNextProxySelect(t)
          \/ GetNextProxyAdvance(t)
          \/ ProxyReturned(t)
SpecPool == InitPool /\ [][NextPool]_vars

\* one run of URLFileScraper, without proxies, on a list of one URL more than
\* the pool has threads
InitExecutor ==
    /\ url_file \in BacklogUrlFiles
    /\ webshare_api_key = FALSE
    /\ FreshScraper
    /\ IdlePart /\ IdleBatch /\ IdleRaptor /\ IdleTools
SpecExecutor == InitExecutor /\ [][ScraperStep]_vars

\* one RaptorSuppliesScraper going through scrape_range under PlainConfig,
\* nothing else running
InitScrapeRange ==
    /\ InitRaptor /\ PlainConfig
    /\ IdlePart /\ IdleBatch /\ IdleScraper /\ IdleTools
NextRaptor ==
    \/ StartItem
    \/ CheckBanStatus
    \/ ApplyRateLimit
    \/ GetSession
    \/ CountRequest
    \/ IssueRequest
    \/ Response
SpecRaptor == InitScrapeRange /\ [][NextRaptor]_vars

\* the same scrape_range under any configuration of the pacing delay and of
\* the checkpoint interval, on storage that may refuse a write; the session
\* rotation and the ban detection, which SpecRaptor goes through, are set to
\* their largest values
InitScrapeRun ==
    /\ InitRaptor
    /\ requests_per_session = MaxPerSession
    /\ check_after_errors = MaxThreshold
    /\ cooldown_period = ShortCooldown
    /\ IdlePart /\ IdleBatch /\ IdleScraper /\ IdleTools
SpecScrapeRun == InitScrapeRun /\ [][NextRaptor]_vars

\* the assignment loop of the orchestrator, nothing else running
InitOrchestrator ==
    /\ InitOrch /\ IdleAgg /\ IdleCounters /\ IdleGithub
    /\ IdlePart /\ IdleBatch /\ IdleScraper /\ IdleRaptor
SpecOrch == InitOrchestrator /\ [][AssignFunction]_vars

\* the three aggregators run over the same result files, nothing else running
InitAggregators ==
    /\ InitAgg /\ IdleOrch /\ IdleCounters /\ IdleGithub
    /\ IdlePart /\ IdleBatch /\ IdleScraper /\ IdleRaptor
NextAgg ==
    \/ ConsolidateData
    \/ AggregateResults
    \/ AutoFetchConsolidate
SpecAgg == InitAggregators /\ [][NextAgg]_vars

\* one BatchScraper going through scrape_batch and save_results, nothing else
\* running
InitBatchCounters ==
    /\ InitBatchScraper /\ IdleOrch /\ IdleAgg /\ IdleGithub
    /\ IdlePart /\ IdleBatch /\ IdleScraper /\ IdleRaptor
NextBatchCounters ==
    \/ \E k \in 1..batch_len : BatchTake(k)
    \/ \E k \in 1..batch_len : BatchFailure(k)
    \/ \E k \in 1..batch_len : BatchReadCount(k)
    \/ \E k \in 1..batch_len : BatchWriteCount(k)
    \/ \E k \in 1..batch_len : BatchCollect(k)
    \/ BatchFinished
    \/ SaveResults
SpecBatchCounters == InitBatchCounters /\ [][NextBatchCounters]_vars

\* github_scraper.py --retry-failed, which may be killed and started again,
\* nothing else running
InitRetry ==
    /\ InitGithub /\ IdleOrch /\ IdleAgg /\ IdleCounters
    /\ IdlePart /\ IdleBatch /\ IdleScraper /\ IdleRaptor
NextRetry ==
    \/ RetryStart
    \/ TriggerWorkflow
    \/ SaveProgressOpen
    \/ SaveProgressDump
    \/ SaveErrorsOpen
    \/ SaveErrorsDump
    \/ GithubRestart
SpecRetry == InitRetry /\ [][NextRetry]_vars


(***************************************************************************)
(* Properties of the partitioners.                                         *)
(***************************************************************************)
AllWorkers == 0..(total_workers - 1)

\* the window a RaptorSuppliesWorker partitions, and the one of a MagentoScraper
Window == PySlice(product_urls, start_index, start_index + total_products)
MagentoWindow == PySlice(product_urls, 0, total_products)

\* the window positions (0-based) a shard of worker w holds, read off the shard
ShardPositions(w, shard) == {w + (j - 1) * total_workers : j \in 1..Len(shard)}

\* worker w's shard holds the window positions i with i mod total_workers = w,
\* each with the identifier found there
OwnsByModulo(w, shard, window) ==
    /\ ShardPositions(w, shard) =
           {i \in 0..(Len(window) - 1) : i % total_workers = w}
    /\ \A j \in 1..Len(shard) : shard[j] = window[w + (j - 1) * total_workers + 1]

\* every window position lies in the shard of exactly one worker
ExactlyOnce(shards, window) ==
    \A i \in 0..(Len(window) - 1) :
        Cardinality({w \in AllWorkers : i \in ShardPositions(w, shards[w])}) = 1

RECURSIVE SumLen(_, _)
SumLen(shards, ws) ==
    IF ws = {} THEN 0
    ELSE LET w == CHOOSE x \in ws : TRUE
         IN  Len(shards[w]) + SumLen(shards, ws \ {w})

\* C1: interleaved partition. Every constructed worker's shard (my_urls of
\* _assign_batch, collection_urls of load_collection_urls) is the window's
\* positions i with i mod total_workers = worker_id; once all workers
\* 0..total_workers-1 are constructed, every position of the window is in
\* exactly one shard and the shards' lengths add up to the window's length
\* (no gap, no overlap).
C1_InterleavedPartition ==
    /\ \A w \in started : OwnsByModulo(w, my_urls[w], Window)
    /\ \A w \in loaded : OwnsByModulo(w, collection_urls[w], MagentoWindow)
    /\ started = AllWorkers =>
          /\ ExactlyOnce(my_urls, Window)
          /\ SumLen(my_urls, AllWorkers) = Len(Window)
    /\ loaded = AllWorkers =>
          /\ ExactlyOnce(collection_urls, MagentoWindow)
          /\ SumLen(collection_urls, AllWorkers) = Len(MagentoWindow)

\* two workers, all constructed, over a window of at least three positions
\* that does not start at the head of the list
C1_Witness ==
    /\ total_workers = 2
    /\ started = AllWorkers
    /\ loaded = AllWorkers
    /\ start_index = 1
    /\ Len(Window) >= 3
    /\ Len(my_urls[0]) = 2

\* s is t with some elements left out, the rest in t's order
RECURSIVE IsSubsequence(_, _)
IsSubsequence(s, t) ==
    IF s = <<>> THEN TRUE
    ELSE IF t = <<>> THEN FALSE
    ELSE IF Head(s) = Head(t) THEN IsSubsequence(Tail(s), Tail(t))
    ELSE IsSubsequence(s, Tail(t))

\* C3: the partitioner is order-preserving and repeatable. A shard lists its
\* identifiers in the relative order of the input list, and the spec's
\* scenario holds: [a,b,c,d] with 2 workers gives worker 0 exactly [a,c] and
\* worker 1 exactly [b,d]. (_assign_batch reads nothing but its five inputs,
\* which is what makes a re-run repeat the list.)
C3_OrderPreserving ==
    /\ \A w \in started :
          IsSubsequence(my_urls[w], Window)
    /\ (/\ product_urls = <<"a", "b", "c", "d">>
        /\ start_index = 0
        /\ total_products >= 4
        /\ total_workers = 2)
       => /\ 0 \in started => my_urls[0] = <<"a", "c">>
          /\ 1 \in started => my_urls[1] = <<"b", "d">>

\* the scenario itself, both workers constructed
C3_Witness ==
    /\ product_urls = <<"a", "b", "c", "d">>
    /\ start_index = 0
    /\ total_products = 4
    /\ total_workers = 2
    /\ started = AllWorkers
    /\ my_urls[1] = <<"b", "d">>

(***************************************************************************)
(* Properties of the batch generators.                                     *)
(***************************************************************************)
AllUrls == read_url_lines(url_lines)

\* the positions (0-based) of all_urls a batch holds, read off the batch
BatchPositions(b, batch) == {b * batch_size + (j - 1) : j \in 1..Len(batch)}

\* batch b is exactly the positions [b*batch_size, min((b+1)*batch_size, total))
IsRange(b, batch, total) ==
    /\ BatchPositions(b, batch) =
           {i \in 0..(total - 1) :
               b * batch_size <= i /\ i < Min((b + 1) * batch_size, total)}
    /\ \A j \in 1..Len(batch) : batch[j] = AllUrls[b * batch_size + j]

\* the number of batches that hold something: ceil(total / batch_size)
NumBatches(total) == (total + batch_size - 1) \div batch_size

RangePartition(ran, batches, total) ==
    /\ \A b \in ran : IsRange(b, batches[b], total)
    /\ \A b \in ran : b * batch_size >= total => batches[b] = <<>>
    /\ \A b1, b2 \in ran :
          b1 # b2 => BatchPositions(b1, batches[b1]) \cap
                         BatchPositions(b2, batches[b2]) = {}
    /\ 0..(NumBatches(total) - 1) \subseteq ran =>
          \A i \in 0..(total - 1) :
              Cardinality({b \in 0..(NumBatches(total) - 1) :
                              i \in BatchPositions(b, batches[b])}) = 1

\* C2: contiguous-range partition. A batch is exactly the positions
\* [batch_id*batch_size, min((batch_id+1)*batch_size, total)) of the URL
\* list; batches of distinct ids are disjoint; batches 0..ceil(total/
\* batch_size)-1 cover every position exactly once; a batch past the end is
\* empty. total is the list's length for BatchScraper.generate_urls and the
\* smaller of --total and the list's length for generate_urls_for_batch.
C2_RangePartition ==
    /\ RangePartition(scraped_batches, batch_urls, Len(AllUrls))
    /\ RangePartition(generated, gen_urls, Min(total_urls, Len(AllUrls)))

\* three URLs in batches of two: a full batch, a partial one and one past
\* the end, from both generators, --total being the list's length
C2_Witness ==
    /\ Len(AllUrls) = 3
    /\ Len(url_lines) = 3
    /\ batch_size = 2
    /\ total_urls = 3
    /\ scraped_batches = 0..2
    /\ generated = 0..2
    /\ Len(batch_urls[1]) = 1
    /\ gen_urls[2] = <<>>


(***************************************************************************)
(* Properties of the URLFileScraper checkpoint store.                      *)
(***************************************************************************)
CheckpointKeys ==
    IF checkpoint_file.kind = "json" THEN DOMAIN checkpoint_file.data ELSE {}

\* the pool threads between save_checkpoint's read of the file and the end
\* of its write
InCheckpointWrite == {t \in Threads : pc[t] \in {"sc_read", "sc_open", "sc_dump"}}

\* C4: checkpoint durability. A fresh instance that has just run
\* load_checkpoint holds in completed_urls every URL whose save_checkpoint
\* had written the file and returned before the process was killed.
C4_CheckpointDurable ==
    main_pc = "constructed" => committed \subseteq completed_urls

\* C5: concurrent commits lose no update. At most one pool thread is between
\* save_checkpoint's read of the file and the end of its write, and whenever
\* no thread is in between, the file holds an entry for every URL a
\* save_checkpoint of this process has written (so it does when all have
\* returned).
C5_NoLostCommit ==
    /\ Cardinality(InCheckpointWrite) <= 1
    /\ InCheckpointWrite = {} =>
          \A u \in run_committed : u \in CheckpointKeys

\* one thread is writing the file, holding the lock, while another has
\* called save_checkpoint for a different URL and waits for the lock
C5_Witness ==
    \E t1, t2 \in Threads :
        /\ pc[t1] = "sc_dump" /\ pc[t2] = "sc_lock"
        /\ lock = {t1}
        /\ urls[task[t1]] # urls[task[t2]]

\* C6: resume. The work list a process starts with is the input list minus
\* exactly the URLs committed before it started, and when a run ends every
\* URL committed so far, by it or by an interrupted run before it, is in the
\* checkpoint.
C6_ResumeSkipsCommitted ==
    /\ main_pc = "submit" =>
          urls = SelectSeq(url_file, LAMBDA u : u \notin committed)
    /\ main_pc = "done" => committed \subseteq CheckpointKeys

\* C7: a corrupt checkpoint is fatal. A process whose load_checkpoint could
\* not parse the file issues no request.
C7_CorruptCheckpointFatal ==
    load_error => \A t \in Threads : pc[t] # "wait"

\* C8: a checkpoint entry is never overwritten in the same run. Whenever the
\* file is complete, every URL that was in it when the process loaded it, or
\* that the process has committed, still has the record it had first.
C8_EntryNeverOverwritten ==
    checkpoint_file.kind = "json" =>
        \A u \in DOMAIN first_commit :
            /\ u \in DOMAIN checkpoint_file.data
            /\ checkpoint_file.data[u] = first_commit[u]

\* C9: commit updates the in-memory index. Every URL a save_checkpoint of
\* this process has written is in completed_urls.
C9_IndexUpdatedOnCommit ==
    run_committed \subseteq completed_urls

(***************************************************************************)
(* Properties of the WebshareProxyManager.                                 *)
(***************************************************************************)
\* the calls that have taken proxy_lock and selected their proxy, in the
\* order they took the lock: <<cursor seen, proxy returned>> of each
Grants ==
    [k \in {j \in 1..Len(grant_order) : grant_order[j] \in DOMAIN granted} |->
        granted[grant_order[k]]]

\* C10: round-robin selection. The call that is the k-th to take proxy_lock
\* (k = 0, 1, ...) sees cursor k and returns proxies[k mod n]; no two calls
\* see the same cursor; n consecutive grants return every proxy once.
C10_RoundRobin ==
    LET n == Len(proxies) IN
    /\ \A k \in DOMAIN Grants :
          Grants[k] = <<k - 1, proxies[((k - 1) % n) + 1]>>
    /\ \A c1, c2 \in DOMAIN granted :
          c1 # c2 => granted[c1][1] # granted[c2][1]
    /\ \A k \in DOMAIN Grants :
          (k + n - 1) \in DOMAIN Grants =>
              {Grants[j][2] : j \in k..(k + n - 1)} = {proxies[i] : i \in 1..n}

\* two proxies, five grants: the cursor has wrapped twice
C10_Witness ==
    /\ Len(proxies) = 2
    /\ Len(grant_order) = 5
    /\ 5 \in DOMAIN Grants
    /\ Grants[5] = <<4, proxies[1]>>
    /\ Grants[3] = <<2, proxies[1]>>

\* C11: outcome recording never excludes an identity. A step that changes
\* proxy_stats changes only the counter of the proxy the recording thread
\* used (success after a 200, failed otherwise) and leaves the proxies list
\* and the cursor as they are; and whatever failures have been recorded,
\* the k-th grant is still proxies[k mod n], so every fetched proxy keeps
\* its turn.
C11_RecordingExcludesNobody ==
    /\ [](\A k \in DOMAIN Grants :
             Grants[k][2] = proxies[((k - 1) % Len(proxies)) + 1])
    /\ [][(main_pc # "start" /\ proxy_stats' # proxy_stats) =>
            /\ proxies' = proxies
            /\ proxy_index' = proxy_index
            /\ \E t \in Threads :
                  /\ pc[t] = "rec_write"
                  /\ \A a \in DOMAIN proxy_stats :
                        \A c \in {"success", "failed"} :
                            (a # proxy[t] \/
                             c # (IF resp[t] = "ok" THEN "success" ELSE "failed"))
                            => proxy_stats'[a][c] = proxy_stats[a][c]]_vars

\* the only proxy has a failure on record and is granted to the second task
C11_Witness ==
    /\ Len(proxies) = 1
    /\ proxy_stats[1].failed = 1
    /\ finished = 1
    /\ \E t \in Threads :
          pc[t] = "wait" /\ task[t] = 2 /\ proxy[t] = 1 /\ 2 \in DOMAIN Grants

\* C12: identity-pool initialization falls back. A URLFileScraper whose
\* fetch_proxies got no usable proxy has no proxy manager; none of its
\* threads is in get_next_proxy, record_success or record_failure, every
\* request goes out without a proxy and no proxy counter exists.
C12_FetchFailureFallsBack ==
    (main_pc # "start" /\ proxies = <<>>) =>
        /\ ~proxy_manager
        /\ proxy_stats = <<>>
        /\ \A t \in Threads :
              /\ proxy[t] = 0
              /\ pc[t] \notin {"gnp_lock", "gnp_select", "gnp_advance",
                               "rec_read", "rec_write"}

\* an API key was given, the fetch got nothing, and the run has gone through
\* both its URLs and committed them
C12_Witness ==
    /\ webshare_api_key
    /\ main_pc = "done"
    /\ proxies = <<>>
    /\ Len(urls) = 2
    /\ run_committed = {"a", "b"}

(***************************************************************************)
(* Properties of RaptorSuppliesScraper.                                    *)
(***************************************************************************)
\* C13: session rotation. A _get_session call made with no session, or with
\* requests_in_session >= requests_per_session, closes the session there is,
\* makes a new one, puts fresh headers on it and resets requests_in_session
\* to 0; any other call returns the same session and leaves the counter.
\* Hence requests_in_session never exceeds requests_per_session and is at
\* least 1 once scrape_product has incremented it.
C13_SessionRotation ==
    /\ [](requests_in_session <= requests_per_session)
    /\ [](rpc \in {"request", "wait"} => requests_in_session >= 1)
    /\ [][(rpc = "get_session" /\ rpc' # "get_session") =>
            IF session = 0 \/ requests_in_session >= requests_per_session
            THEN /\ session' # 0
                 /\ session' # session
                 /\ session' \notin closed'
                 /\ session # 0 => session \in closed'
                 /\ session_headers' = session'
                 /\ requests_in_session' = 0
            ELSE /\ session' = session
                 /\ closed' = closed
                 /\ session_headers' = session_headers
                 /\ requests_in_session' = requests_in_session]_vars

\* the first session served its one request and was closed; the request of
\* the second item goes out on the second session
C13_Witness ==
    /\ requests_per_session = 1
    /\ closed = {1}
    /\ session = 2
    /\ session_headers = 2
    /\ requests_in_session = 1
    /\ rpc = "wait"

\* C14: NORMAL -> COOLDOWN. The failure that brings consecutive_errors to
\* check_after_errors (or beyond) sets ban_detected and cooldown_until = now
\* + cooldown_period; a failure that leaves it below sets neither. With the
\* counter at the threshold the scraper is in cooldown, so it is after
\* check_after_errors blocked outcomes in a row (5 of them with threshold 5),
\* with cooldown_until counted from the last of them.
C14_CooldownAtThreshold ==
    /\ [](consecutive_errors >= check_after_errors => ban_detected)
    /\ []((/\ blocked_run >= check_after_errors
            /\ status = "forbidden"
            /\ rpc \in {"request", "idle"})
           => /\ ban_detected
              /\ cooldown_until = (now - wait_time) + cooldown_period)
    /\ [][consecutive_errors' = consecutive_errors + 1 =>
            IF consecutive_errors' >= check_after_errors
            THEN /\ ban_detected'
                 /\ cooldown_until' = now + cooldown_period
            ELSE /\ ban_detected' = ban_detected
                 /\ cooldown_until' = cooldown_until]_vars

\* threshold 5, five 403 answers in a row over two items, the first ban
C14_Witness ==
    /\ check_after_errors = 5
    /\ blocked_run = 5
    /\ consecutive_errors = 5
    /\ ban_detected
    /\ raptor_stats.bans_detected = 1
    /\ cooldown_until = (now - wait_time) + cooldown_period

\* C15: COOLDOWN -> NORMAL. _check_ban_status with ban_detected and now >=
\* cooldown_until clears ban_detected, sets consecutive_errors to 0 and lets
\* the request go on; with ban_detected and now < cooldown_until it refuses
\* and leaves ban_detected, consecutive_errors and cooldown_until; with no
\* ban it lets the request go on and changes none of the three.
C15_CooldownExpiry ==
    [][(rpc = "check_ban" /\ rpc' # "check_ban") =>
        IF ban_detected /\ now >= cooldown_until
        THEN /\ ~ban_detected'
             /\ consecutive_errors' = 0
             /\ rpc' = "rate_limit"
        ELSE IF ban_detected
        THEN /\ rpc' = "idle"
             /\ result' = "refused"
             /\ UNCHANGED <<ban_detected, consecutive_errors, cooldown_until, toolVars>>
        ELSE /\ rpc' = "rate_limit"
             /\ UNCHANGED <<ban_detected, consecutive_errors, cooldown_until, toolVars>>]_vars

\* a ban was detected during the first item, its cooldown is over when the
\* second item starts, and the check has just cleared it
C15_Witness ==
    /\ raptor_stats.bans_detected >= 1
    /\ product_id = 2
    /\ rpc = "rate_limit"
    /\ ~ban_detected
    /\ consecutive_errors = 0
    /\ now >= cooldown_until
    /\ error_files[1].consecutive_errors >= check_after_errors

\* C16: no request during cooldown. No session.get, first attempt or later,
\* is in flight while ban_detected is true and now < cooldown_until.
C16_NoRequestDuringCooldown ==
    ~(rpc = "wait" /\ ban_detected /\ now < cooldown_until)

\* C17: every completed attempt updates consecutive_errors: a parsed 200 and
\* a 404 leave it at 0, a 403, another status, a timeout or another
\* exception leave it one above what it was when the attempt was issued,
\* and an attempt of any other outcome has done one of the two as well.
C17_EveryAttemptUpdatesCounter ==
    (status # "none" /\ rpc \in {"request", "idle"}) =>
        CASE status \in {"ok", "not_found"} -> consecutive_errors = 0
          [] status \in Failures -> consecutive_errors = errors_before + 1
          [] OTHER -> \/ consecutive_errors = 0
                      \/ consecutive_errors = errors_before + 1

\* C18: NOT_FOUND leaves no record. No entry of URLFileScraper's failed_urls
\* and none of failed_urls.json is the entry of a 404 answer.
C18_NotFoundLeavesNoRecord ==
    /\ \A u \in DOMAIN failed_urls : failed_urls[u] # ErrorOf("not_found")
    /\ failed_file.kind = "json" =>
          \A u \in DOMAIN failed_file.data :
              failed_file.data[u] # ErrorOf("not_found")

\* C19: retry exhaustion. A scrape_product call issues at most max_retries
\* requests; a call that has returned with every one of its requests timed
\* out has issued exactly max_retries, has returned no product and has left
\* error_<product_id>.json with error_type TIMEOUT.
C19_RetryExhaustion ==
    /\ attempts <= max_retries
    /\ (rpc = "idle" /\ attempts > 0 /\ timeouts = attempts) =>
          /\ attempts = max_retries
          /\ result = "none"
          /\ error_files[product_id].error_type = "TIMEOUT"

\* three retries, three timeouts, the call is over
C19_Witness ==
    /\ max_retries = 3
    /\ rpc = "idle"
    /\ attempts = 3
    /\ timeouts = 3
    /\ result = "none"
    /\ error_files[product_id].error_type = "TIMEOUT"

\* C20: back-off table. The wait before attempt number attempt (0-based,
\* attempt >= 1) is attempt*30 s after a 403, attempt*5 s after a timeout
\* and attempt*10 s after any other failure; a call that has returned slept
\* no back-off after its last attempt.
C20_BackoffTable ==
    /\ (rpc = "request" /\ attempt > 0) =>
          wait_time = attempt * (CASE status = "forbidden" -> 30
                                   [] status = "timeout" -> 5
                                   [] OTHER -> 10)
    /\ rpc = "idle" => wait_time = 0

\* C21: a parse failure is handled as an error of the attempt. After an
\* attempt whose 200 response gave no product (the name is missing),
\* consecutive_errors is one above what it was, error_<product_id>.json
\* holds the failure, the call goes on to its next attempt while it has one
\* left, it returns no product, and the checkpoint does not name the item.
C21_ParseFailureIsError ==
    (status = "unparsed" /\ rpc \in {"request", "idle"}) =>
        /\ consecutive_errors = errors_before + 1
        /\ error_files[product_id] # NoFile
        /\ attempts < max_retries => rpc = "request"
        /\ result # "product"
        /\ last_product_id # product_id

\* C22: no URL is silently dropped. Once scrape_product has returned for a
\* URL whose request was answered 429 or ended in the except branch (another
\* status, a timeout, a connection or parse exception), a URL that is not in
\* the checkpoint has an entry with that error in failed_urls and in
\* failed_urls.json.
C22_NoUrlSilentlyDropped ==
    \A t \in Threads :
        (/\ pc[t] = "ret"
         /\ resp[t] \in {"rate_limited", "error"}
         /\ urls[task[t]] \notin CheckpointKeys) =>
            /\ urls[task[t]] \in DOMAIN failed_urls
            /\ failed_urls[urls[task[t]]] = ErrorOf(resp[t])
            /\ failed_file.kind = "json"
            /\ urls[task[t]] \in DOMAIN failed_file.data

\* the pool threads that are inside a scrape_product call
InFlight == {t \in Threads : pc[t] # "idle"}

\* C23: bounded concurrency. At most max_workers scrape_product calls are in
\* flight; no position of the submitted list is run by two threads, the
\* positions taken so far are the ones in flight and the ones finished, and
\* a thread is only ever given the first position not yet taken; the
\* executor has returned only when every submitted URL has finished.
C23_BoundedConcurrency ==
    /\ [](/\ Cardinality(InFlight) <= max_workers
          /\ \A t \in InFlight : task[t] \in 1..taken
          /\ \A t1 \in InFlight : \A t2 \in InFlight :
                task[t1] = task[t2] => t1 = t2
          /\ taken = finished + Cardinality(InFlight)
          /\ taken <= submitted
          /\ main_pc = "done" =>
                /\ finished = Len(urls)
                /\ InFlight = {})
    /\ [][\A t \in Threads :
             (task'[t] # task[t] /\ task'[t] # 0) =>
                 /\ task'[t] = taken + 1
                 /\ taken' = taken + 1
                 /\ taken < Len(urls)]_vars

\* every thread of the pool is waiting for its response while a URL of the
\* list is still queued
C23_Witness ==
    /\ Len(urls) > max_workers
    /\ submitted = Len(urls)
    /\ taken = max_workers
    /\ \A t \in Threads : pc[t] = "wait"

\* C24: per-item errors never abort the run. Whatever an item's attempt
\* comes back with, and whether or not the write of its error entry, of the
\* checkpoint or of its result goes through, no exception leaves
\* scrape_product and scrape_range: the run is never aborted.
C24_ItemErrorsAbsorbed ==
    rpc # "aborted"

\* the pool threads whose URL this call has counted in stats['success']
CountedSuccess ==
    {t \in Threads : resp[t] = "ok" /\ pc[t] \in {"sc_lock", "sc_read", "sc_open",
                                                   "sc_dump", "ret"}}

\* C25: durable before reported. A URL that a scrape_product call has
\* counted in stats['success'] has its entry in the checkpoint file.
C25_DurableBeforeReported ==
    \A t \in CountedSuccess : urls[task[t]] \in CheckpointKeys

\* C26: no lock is held across a network call. A pool thread whose
\* session.get is in flight holds neither self.lock nor proxy_lock, and the
\* main thread holds none while __init__ fetches the proxies; self.lock is
\* held only around a counter update and save_checkpoint's
\* read-modify-write, proxy_lock only around the selection and the advance
\* of the cursor.
C26_NoLockAcrossRequest ==
    /\ \A t \in Threads : pc[t] = "wait" => (t \notin lock /\ t \notin proxy_lock)
    /\ main_pc = "start" => MainThread \notin lock \cup proxy_lock
    /\ \A t \in lock :
          IF t = MainThread THEN main_pc = "count"
          ELSE pc[t] \in {"count", "sc_read", "sc_open", "sc_dump"}
    /\ \A t \in proxy_lock :
          t \in Threads /\ pc[t] \in {"gnp_select", "gnp_advance"}

\* a request that went out through a proxy is in flight while another
\* thread holds self.lock in the middle of save_checkpoint's write
C26_Witness ==
    \E t1 \in Threads : \E t2 \in Threads :
        /\ pc[t1] = "wait"
        /\ proxy[t1] # 0
        /\ pc[t2] = "sc_dump"
        /\ lock = {t2}

\* C27: request pacing. Any two consecutive session.get calls of the
\* scraper, a retry of the same item or the first attempt of the next item,
\* are at least min_delay_seconds apart.
C27_RequestPacing ==
    request_gap = -1 \/ request_gap >= min_delay_seconds

\* C28: a session serves a bounded number of requests. The session.get
\* calls made on one session object, retries included, never number more
\* than requests_per_session.
C28_SessionServesBounded ==
    session_requests <= requests_per_session

\* C29: an item met during cooldown is not dropped. A scrape_product call of
\* scrape_range's range that has returned has made at least one HTTP attempt
\* for its item, also when the call began during the cooldown.
C29_CooldownItemRequested ==
    (rpc = "idle" /\ product_id >= 1) => attempts >= 1

\* C30: immediate commit. Whenever a request is issued, the checkpoint file
\* holds the last_product_id and the products_scraped the scraper has in
\* memory: every item scraped before that request is in the file.
C30_ImmediateCommit ==
    rpc = "wait" =>
        raptor_checkpoint = [last_product_id |-> last_product_id,
                             products_scraped |-> raptor_stats.products_scraped]

\* C31: a 404 leaves the consecutive-failure counter unchanged. After an
\* attempt that was answered 404, consecutive_errors is what it was when
\* the attempt was issued.
C31_NotFoundLeavesCounter ==
    (status = "not_found" /\ rpc = "idle") =>
        consecutive_errors = errors_before

\* C38: the cooldown is entered once per ban. cooldown_until changes and
\* stats['bans_detected'] grows only in a step that takes ban_detected from
\* false to true, and that step adds exactly one to bans_detected.
C38_CooldownEnteredOnce ==
    [][(\/ cooldown_until' # cooldown_until
        \/ raptor_stats'.bans_detected # raptor_stats.bans_detected) =>
           /\ ~ban_detected
           /\ ban_detected'
           /\ raptor_stats'.bans_detected = raptor_stats.bans_detected + 1]_vars

\* C34: counter conservation. When scrape_concurrent has returned,
\* stats['total'] is the number of submitted URLs and equals
\* success + failed + rate_limited.
C34_CounterConservation ==
    (main_pc = "done" /\ urls # <<>>) =>
        /\ stats.total = Len(urls)
        /\ stats.total = stats.success + stats.failed + stats.rate_limited

\* the sum of one counter over the proxies 1..n
RECURSIVE SumProxyStat(_, _)
SumProxyStat(field, n) ==
    IF n = 0 THEN 0 ELSE proxy_stats[n][field] + SumProxyStat(field, n - 1)

\* C36: per-identity counters lose no update. With proxies enabled, when
\* every task has completed the per-proxy success counters add up to
\* stats['success'] and the per-proxy failed counters to
\* stats['failed'] + stats['rate_limited'].
C36_ProxyCountersLoseNothing ==
    (main_pc = "done" /\ urls # <<>> /\ proxy_manager) =>
        /\ SumProxyStat("success", Len(proxy_stats)) = stats.success
        /\ SumProxyStat("failed", Len(proxy_stats))
              = stats.failed + stats.rate_limited

\* C37: the failure file under concurrency. Once every save_failed call has
\* returned (no pool thread is inside scrape_product), failed_urls.json
\* parses and holds an entry for every URL of the in-memory failed_urls.
C37_FailureFileComplete ==
    (InFlight = {} /\ failed_urls # EmptyDict) =>
        /\ failed_file.kind = "json"
        /\ DOMAIN failed_urls \subseteq DOMAIN failed_file.data

\* the batches of assignment a: start_batch <= b < end_batch
BatchesOf(a) == {b \in 0..MaxTotalBatches + 1 : a.start_batch <= b /\ b < a.end_batch}

\* C32: the orchestrator's batch ranges. The assignments made so far are
\* contiguous in function order (the first starts at 0, each next one starts
\* where the previous ended), never reversed and pairwise disjoint; once the
\* loop has handled every function their union is exactly 0..TOTAL_BATCHES-1
\* and the last function ends at TOTAL_BATCHES.
C32_BatchRanges ==
    LET fa == function_assignments IN
    /\ \A k \in 1..Len(fa) :
          /\ fa[k].start_batch <= fa[k].end_batch
          /\ fa[k].start_batch = IF k = 1 THEN 0 ELSE fa[k - 1].end_batch
          /\ fa[k].total_batches = fa[k].end_batch - fa[k].start_batch
    /\ \A j, k \in 1..Len(fa) :
          j # k => BatchesOf(fa[j]) \cap BatchesOf(fa[k]) = {}
    /\ orch_i = Len(functions) =>
          /\ Len(fa) = Len(functions)
          /\ fa[Len(fa)].end_batch = TOTAL_BATCHES
          /\ UNION {BatchesOf(fa[k]) : k \in 1..Len(fa)} = 0..(TOTAL_BATCHES - 1)

\* all of three or more functions assigned, with a remainder for the last
C32_Witness ==
    /\ orch_i = Len(functions)
    /\ Len(functions) >= 3
    /\ TOTAL_BATCHES > Len(functions)
    /\ TOTAL_BATCHES % Len(functions) # 0

\* the output files the aggregators have written
AggOutputs ==
    {o \in {consolidated_products, raptor_products_final,
            auto_consolidated_products} : o.written}

\* the records an aggregator is to choose from: a url and a name are present
ValidRecords(ps) == SelectSeq(ps, LAMBDA r : r.url # "" /\ r.name # "")

FirstOf(ps, url) == ps[CHOOSE k \in 1..Len(ps) :
                          /\ ps[k].url = url
                          /\ \A j \in 1..(k - 1) : ps[j].url # url]
LastOf(ps, url) == ps[CHOOSE k \in 1..Len(ps) :
                         /\ ps[k].url = url
                         /\ \A j \in (k + 1)..Len(ps) : ps[j].url # url]

\* C33: the aggregation output. Every output an aggregator has written holds
\* at most one record per URL and no record whose name is absent or empty,
\* and its records are chosen by one rule: each is the first record of its URL
\* in file-processing order, or each is the last one.
C33_AggregationOutput ==
    \A o \in AggOutputs :
        LET out == o.products
            ps == ValidRecords(AllRecords(result_files))
        IN  /\ \A j, k \in 1..Len(out) : j # k => out[j].url # out[k].url
            /\ \A k \in 1..Len(out) : out[k].name # ""
            /\ \/ \A k \in 1..Len(out) :
                     HasUrl(ps, out[k].url) /\ out[k] = FirstOf(ps, out[k].url)
               \/ \A k \in 1..Len(out) :
                     HasUrl(ps, out[k].url) /\ out[k] = LastOf(ps, out[k].url)

\* C35: the summary counters of BatchScraper. Once scrape_batch has finished,
\* success_count is the number of products collected, failed_count is the
\* length of failed_urls, the two add up to the number of URLs of the batch,
\* and the metadata file, once written, holds these two values.
C35_SummaryCounters ==
    batch_pc \in {"finished", "saved"} =>
        /\ success_count = Len(products)
        /\ failed_count = Len(batch_failed_urls)
        /\ success_count + failed_count = batch_len
        /\ batch_metadata.written =>
              /\ batch_metadata.success_count = Len(products)
              /\ batch_metadata.failed_count = Len(batch_failed_urls)

\* C40: failed workflows survive an interrupted retry. Whenever no save_errors
\* call is in the middle of its write, every workflow that failed and has not
\* been re-triggered successfully since is in the persisted ERROR_LOG; and
\* when a pass of retry_failed_workflows is complete, each workflow it
\* retried is in exactly one of completed_workflows and failed_workflows.
C40_FailedWorkflowsSurvive ==
    /\ github_pc \notin {"save_errors_dump", "crashed"} =>
          \A w \in owed :
              ERROR_LOG.kind = "json" /\ w \in Elems(ERROR_LOG.workflows)
    /\ github_pc = "done" =>
          \A w \in Elems(failed) :
              (w \in Elems(progress)) # (w \in Elems(errors))

\* the threads that wait for self.lock, and those that wait for proxy_lock
WaitsForLock ==
    {t \in Threads : pc[t] \in {"count_lock", "sc_lock"}}
        \cup (IF main_pc = "collect" THEN {MainThread} ELSE {})
WaitsForProxyLock == {t \in Threads : pc[t] = "gnp_lock"}

\* no thread holds both locks, none waits for a lock while it holds one
NoNestedLocking ==
    /\ lock \cap proxy_lock = {}
    /\ (WaitsForLock \cup WaitsForProxyLock) \cap (lock \cup proxy_lock) = {}

\* scrape_concurrent has returned with every submitted task finished
AllTasksFinished ==
    /\ main_pc = "done"
    /\ submitted = Len(urls)
    /\ finished = submitted
    /\ InFlight = {}
    /\ lock = {} /\ proxy_lock = {}

\* C39: termination without deadlock. With every request returning or timing
\* out and every thread scheduled fairly, no thread ever holds self.lock and
\* proxy_lock together or waits for a lock while holding one, and every
\* submitted task eventually finishes and scrape_concurrent returns.
C39_TerminationWithoutDeadlock == []NoNestedLocking /\ <>AllTasksFinished

\* both pool threads are in flight: one holds proxy_lock in get_next_proxy
\* while the other, past its request, asks for self.lock
C39_Witness ==
    \E t1 \in Threads : \E t2 \in Threads :
        /\ t1 # t2
        /\ proxy_lock = {t1}
        /\ pc[t2] \in {"count_lock", "sc_lock"}

=============================================================================
